---- MODULE Spec2Model ----
(***************************************************************************)
(* Individual-reserving preprocessing pipeline: calendar/quarter           *)
(* arithmetic, quarterly aggregation with inflation adjustment, the        *)
(* outstanding-liability calculation, the train/val/test split engine and  *)
(* the seeded claim generator.                                             *)
(*                                                                         *)
(* Dates are whole days since 1970-01-01 (Date.getTime() / MS_PER_DAY):    *)
(* every date the program builds is a UTC midnight.  Money and price index *)
(* values are fixed-point integers (floating point is modelled by floor    *)
(* rounding).  A quarter key "YYYYQn" is the pair <<YYYY, n>>.             *)
(***************************************************************************)
EXTENDS Integers, Sequences, FiniteSets, TLC

VARIABLES
    \* ---- quarterly preprocessing view (ClaimsPreprocessingDiagram) ----
    selectedClaim,        \* the claim handed to aggregateClaimToQuarters
    oneBasedDevQuarters,  \* the one/zero-based display flag
    endDate,              \* observation end date passed to the aggregation, or NoDate
    priceIndexMap,        \* quarterKey -> end-of-quarter index, or NoMap
    midQuarterIndexMap,   \* buildMidQuarterIndexMap(priceIndexMap)
    tzBehind,             \* days the host's local calendar date lags UTC midnight
    quarterlyData,        \* aggregateClaimToQuarters(...) of the above
    \* ---- split diagram (ClaimsDiagram) ----
    startDateStr, endDateStr,
    trainCutStr, valCutStr, testCutStr,
    claims,               \* the claim list shown in the diagram
    splitMode,
    rows,                 \* buildRows(claims, splitMode)
    didInitCuts,          \* the one-time cutoff initialisation has run
    selectedClaimIndex,   \* the index stored by a click on a diagram row (from 0)
    \* ---- claim generator ----
    rngState,             \* counter captured by the live mulberry32 closure
    genParams,            \* parameters of the latest generateClaims call
    genRuns               \* history of generateClaims calls: <<params, result>>

aggVars   == <<selectedClaim, oneBasedDevQuarters, endDate, priceIndexMap, midQuarterIndexMap,
              tzBehind, quarterlyData>>
splitVars == <<startDateStr, endDateStr, trainCutStr, valCutStr, testCutStr, claims, splitMode, rows,
              didInitCuts, selectedClaimIndex>>
genVars   == <<rngState, genParams, genRuns>>
vars      == <<aggVars, splitVars, genVars>>

----------------------------------------------------------------------------
(* Generic helpers *)

\* the element of a one-element set.  Only({e(x) : x \in {v}}) computes v
\* once and hands its value to e: a JavaScript const binding
Only(S) == CHOOSE r \in S : TRUE

Min(a, b) == Only({IF x < y THEN x ELSE y : x \in {a}, y \in {b}})
Max(a, b) == Only({IF x > y THEN x ELSE y : x \in {a}, y \in {b}})

RECURSIVE SumSeq(_)
SumSeq(s) == IF s = <<>> THEN 0 ELSE Head(s) + SumSeq(Tail(s))

----------------------------------------------------------------------------
(* Calendar: the UTC field accessors of a JavaScript Date *)

\* Date.UTC(y, m0, d) / MS_PER_DAY, month 0-based and allowed to overflow,
\* day allowed to overflow into the following month
DateUTC(y, m0, d) ==
    Only({LET mp  == IF mm > 2 THEN mm - 3 ELSE mm + 9
              doy == (153 * mp + 2) \div 5
              era == y2 \div 400
              yoe == y2 % 400
              doe == yoe * 365 + (yoe \div 4) - (yoe \div 100) + doy
          IN  era * 146097 + doe - 719468 + (d - 1) :
          <<mm, y2>> \in {<<(m0 % 12) + 1,
                            y + (m0 \div 12) - (IF m0 % 12 < 2 THEN 1 ELSE 0)>>}})

\* [y, m0, d] of a day number: getUTCFullYear / getUTCMonth / getUTCDate
CivilFromDays(z) ==
    Only({Only({Only({Only({
        [y  |-> yoe + era * 400 + (IF mp >= 10 THEN 1 ELSE 0),
         m0 |-> (IF mp < 10 THEN mp + 3 ELSE mp - 9) - 1,
         d  |-> doy - ((153 * mp + 2) \div 5) + 1] :
        mp  \in {(5 * doy + 2) \div 153}}) :
        doy \in {doe - (365 * yoe + (yoe \div 4) - (yoe \div 100))}}) :
        yoe \in {(doe - (doe \div 1460) + (doe \div 36524) - (doe \div 146096)) \div 365}}) :
        <<era, doe>> \in {<<(z + 719468) \div 146097, (z + 719468) % 146097>>}})

getUTCFullYear(t) == CivilFromDays(t).y
getUTCMonth(t)    == CivilFromDays(t).m0
getUTCDate(t)     == CivilFromDays(t).d

InvalidDate == -1          \* a Date whose getTime() is NaN

\* a date shift that moves twice as far
addDaysTwice(d, days) == d + days + days
addDays(d, days) == d + days
daysBetween(a, b) == b - a
\* a clamp that forgets the upper bound
clampDateFromBelow(d, lo, hi) == Max(d, lo)
clampDate(d, lo, hi) == Min(Max(d, lo), hi)
monthKeyUTC(d) == Only({c.y * 12 + c.m0 : c \in {CivilFromDays(d)}})

----------------------------------------------------------------------------
(* 32-bit words.  A uint32 is kept as two 16-bit halves [hi, lo], so that   *)
(* no intermediate value leaves the range of the model checker's integers. *)

W16 == 65536

Word(hi, lo) == [hi |-> hi, lo |-> lo]

RECURSIVE xor16(_, _)
xor16(a, b) ==
    Only({IF x = 0 THEN y
          ELSE IF y = 0 THEN x
          ELSE 2 * xor16(x \div 2, y \div 2) + ((x + y) % 2) : x \in {a}, y \in {b}})

RECURSIVE or16(_, _)
or16(a, b) ==
    Only({IF x = 0 THEN y
          ELSE IF y = 0 THEN x
          ELSE 2 * or16(x \div 2, y \div 2) + (IF (x % 2) + (y % 2) > 0 THEN 1 ELSE 0) :
          x \in {a}, y \in {b}})

RECURSIVE Pow2(_)
Pow2(n) == IF n = 0 THEN 1 ELSE 2 * Pow2(n - 1)

\* x ^ y
xor32(x, y) == Only({Word(xor16(a.hi, b.hi), xor16(a.lo, b.lo)) : a \in {x}, b \in {y}})
\* x | c  for a constant c < 2^16
or32(x, c) == Only({Word(a.hi, or16(a.lo, c)) : a \in {x}})
\* (x + y) mod 2^32
add32(x, y) ==
    Only({Word((a.hi + b.hi + ((a.lo + b.lo) \div W16)) % W16, (a.lo + b.lo) % W16) :
          a \in {x}, b \in {y}})
\* x >>> n  for 0 < n < 16
shr32(x, n) ==
    Only({Word(a.hi \div p, (a.lo \div p) + (a.hi % p) * (W16 \div p)) :
          a \in {x}, p \in {Pow2(n)}})
\* the full 32-bit product of two 16-bit halves
mul16(a, b) ==
    Only({Only({Word((p0 \div W16) + (p1 \div 256) + (l \div W16), l % W16) :
                l \in {(p0 % W16) + (p1 % 256) * 256}}) :
          p0 \in {(a % 256) * b}, p1 \in {(a \div 256) * b}})
\* Math.imul(x, y), as an unsigned word
imul(x, y) ==
    Only({Only({Word((ll.hi + mul16(a.hi, b.lo).lo + mul16(a.lo, b.hi).lo) % W16, ll.lo) :
                ll \in {mul16(a.lo, b.lo)}}) :
          a \in {x}, b \in {y}})

\* hashStringToSeed: FNV-1a over the character codes of str
FNV_BASIS == Word(33052, 40389)     \* 2166136261 = 0x811c9dc5
FNV_PRIME == Word(256, 403)         \* 16777619   = 0x01000193

RECURSIVE fnvFold(_, _)
fnvFold(h, str) ==
    IF str = <<>> THEN h
    ELSE Only({fnvFold(h1, Tail(str)) : h1 \in {imul(xor32(h, Word(0, Head(str))), FNV_PRIME)}})

hashStringToSeed(str) == fnvFold(FNV_BASIS, str)

\* mulberry32: one call of the closure returned by mulberry32(a).
\* [a |-> the counter after the call, v |-> the 32-bit numerator of the
\* returned value v / 4294967296].  The counter is a JS number that is not
\* wrapped; only its low 32 bits ever reach the bit operations.
MULBERRY_INC == Word(27947, 31221)  \* 0x6d2b79f5

mulberry32(a) ==
    Only({Only({Only({
        [a |-> a1, v |-> xor32(t2, shr32(t2, 14))] :
        t2 \in {xor32(t1, add32(t1, imul(xor32(t1, shr32(t1, 7)), or32(t1, 61))))}}) :
        t1 \in {imul(xor32(a1, shr32(a1, 15)), or32(a1, 1))}}) :
        a1 \in {add32(a, MULBERRY_INC)}})

\* Math.floor(rand() * n) for the value v / 2^32 and an integer 0 < n < 2^15
floorMul(v, n) == Only({(w.hi * n + ((w.lo * n) \div W16)) \div W16 : w \in {v}})

----------------------------------------------------------------------------
(* Quarter helpers *)

NoDate == -2               \* null / undefined where a Date is expected

QuarterKey(y, q) == <<y, q>>

\* a previous-quarter key that forgets the year change
prevQuarterKeySameYear(qk) ==
    IF qk[2] - 1 < 1 THEN QuarterKey(qk[1], 4) ELSE QuarterKey(qk[1], qk[2] - 1)

\* parseQuarterKey + formatting of the previous quarter
prevQuarterKey(qk) ==
    IF qk[2] - 1 < 1 THEN QuarterKey(qk[1] - 1, 4) ELSE QuarterKey(qk[1], qk[2] - 1)

nextQuarterKey(qk) ==
    IF qk[2] + 1 > 4 THEN QuarterKey(qk[1] + 1, 1) ELSE QuarterKey(qk[1], qk[2] + 1)

DEVQ_CLAMP == 50

getQuarterInfo(date, referenceDate) ==
    IF date \in {NoDate, InvalidDate} \/ referenceDate \in {NoDate, InvalidDate}
    THEN [calendarYear |-> 2020, calendarQuarter |-> 1, developmentQuarter |-> 0,
          quarterKey |-> QuarterKey(2020, 1)]
    ELSE Only({LET refYear     == ref.y
                   refQuarter  == ref.m0 \div 3
                   dateYear    == dt.y
                   dateQuarter == dt.m0 \div 3
                   quartersSinceRef == (dateYear - refYear) * 4 + (dateQuarter - refQuarter)
                   clampedQuarters  == Max(0 - DEVQ_CLAMP, Min(DEVQ_CLAMP, quartersSinceRef))
               IN  [calendarYear |-> dateYear, calendarQuarter |-> dateQuarter + 1,
                    developmentQuarter |-> clampedQuarters,
                    quarterKey |-> QuarterKey(dateYear, dateQuarter + 1)] :
               ref \in {CivilFromDays(referenceDate)}, dt \in {CivilFromDays(date)}})

startOfQuarterUTC(d) == Only({DateUTC(c.y, (c.m0 \div 3) * 3, 1) : c \in {CivilFromDays(d)}})
addQuartersUTC(d, n) == Only({DateUTC(c.y, c.m0 + 3 * n, 1) : c \in {CivilFromDays(d)}})
quarterKeyFromUTC(d) == Only({QuarterKey(c.y, (c.m0 \div 3) + 1) : c \in {CivilFromDays(d)}})

----------------------------------------------------------------------------
(* Price index.  Index values are fixed-point with IDX_UNIT per 1.0; rates  *)
(* are in units of 1 / RATE_UNIT.                                          *)

IDX_UNIT  == 100
RATE_UNIT == 10000

\* a price index map is [isNull, map]; a key missing from map reads as
\* undefined, which is falsy like 0
NoMap == [isNull |-> TRUE, map |-> <<>>]
PI(m, k) == IF k \in DOMAIN m THEN m[k] ELSE 0

\* one pass of the for loop of generatePriceIndexSeries over the loop state
\* st = [q, idx, a, series]; nothing happens once q is past lastQ
priceIndexStep(st, lastQ) ==
    Only({IF s.q > lastQ THEN s
          ELSE Only({Only({Only({
                   [q |-> qNext, idx |-> idx2, a |-> r2.a,
                    series |-> Append(s.series, [date |-> s.q, quarterKey |-> quarterKeyFromUTC(s.q),
                                                 index |-> idx2])] :
                   idx2 \in {LET drift == 130 + floorMul(r1.v, 60)    \* 0.013 + rnd() * 0.006
                                 noise == floorMul(r2.v, 80) - 40      \* (rnd() - 0.5) * 0.008
                             IN  Max(60 * IDX_UNIT,
                                     (s.idx * (RATE_UNIT + drift + noise)) \div RATE_UNIT)},
                   qNext \in {addQuartersUTC(s.q, 1)}}) :
                   r2 \in {mulberry32(r1.a)}}) :
                   r1 \in {mulberry32(s.a)}}) :
          s \in {st}})

\* up to n passes of the loop, run as two halves one after the other
RECURSIVE priceIndexLoop(_, _, _)
priceIndexLoop(st, lastQ, n) ==
    IF n <= 1 THEN priceIndexStep(st, lastQ)
    ELSE Only({priceIndexLoop(half, lastQ, n - (n \div 2)) :
               half \in {priceIndexLoop(st, lastQ, n \div 2)}})

\* the series of generatePriceIndexSeries(startDate, endDate, seed); a
\* quarter is at least 90 days, which bounds the number of passes
priceIndexSeries(startDate, endDate_, seed) ==
    Only({priceIndexLoop([q |-> q, idx |-> 100 * IDX_UNIT, a |-> a, series |-> <<>>],
                         lastQ, (Max(0, lastQ - q) \div 90) + 1).series :
          q     \in {startOfQuarterUTC(DateUTC(getUTCFullYear(startDate), getUTCMonth(startDate), 1))},
          lastQ \in {startOfQuarterUTC(DateUTC(getUTCFullYear(endDate_), getUTCMonth(endDate_), 1))},
          a     \in {xor32(seed, Word(40503, 31161))}})    \* seed ^ 0x9e3779b9

\* map[k] = idx for every entry of the series, in order
RECURSIVE seriesToMap(_)
seriesToMap(series) ==
    Only({[k \in {s[i].quarterKey : i \in DOMAIN s} |->
             s[CHOOSE i \in DOMAIN s :
                  (s[i].quarterKey = k) /\
                  (\A j \in DOMAIN s : s[j].quarterKey = k => j <= i)].index] :
          s \in {series}})

\* the map of generatePriceIndexSeries(startDate, endDate, seed)
generatePriceIndexSeries(startDate, endDate_, seed) ==
    [isNull |-> FALSE, map |-> seriesToMap(priceIndexSeries(startDate, endDate_, seed))]

\* Math.sqrt, rounded down to the fixed-point grid.  The argument is the
\* product of two index values and comes as a word of two 16-bit halves; the
\* square of the candidate c = r + bit is compared with it half by half:
\* c * c = ((c \div 256)^2 + m \div 2^16) * 2^16 + m % 2^16
RECURSIVE sqrtStep(_, _, _)
sqrtStep(n, r, bit) ==
    IF bit = 0 THEN r
    ELSE Only({IF (h < n.hi) \/ ((h = n.hi) /\ (m % W16 <= n.lo))
               THEN sqrtStep(n, r + bit, bit \div 2)
               ELSE sqrtStep(n, r, bit \div 2) :
               h \in {((r + bit) \div 256) * ((r + bit) \div 256)
                         + ((2 * ((r + bit) \div 256) * ((r + bit) % 256) * 256
                             + ((r + bit) % 256) * ((r + bit) % 256)) \div W16)},
               m \in {2 * ((r + bit) \div 256) * ((r + bit) % 256) * 256
                         + ((r + bit) % 256) * ((r + bit) % 256)}})

sqrt(n) == Only({sqrtStep(v, 0, 32768) : v \in {n}})

\* variant that takes the end-of-quarter value as the mid-quarter value
midQuarterIndexEndOfQuarter(pim, k) == pim.map[k]

\* the entry of buildMidQuarterIndexMap(pim) for the quarter k of the index
midQuarterIndex(pim, k) ==
    Only({IF prevVal # 0 /\ eoq # 0 THEN sqrt(mul16(prevVal, eoq)) ELSE eoq :
          eoq \in {pim.map[k]}, prevVal \in {PI(pim.map, prevQuarterKey(k))}})

buildMidQuarterIndexMap(pim) ==
    IF pim.isNull THEN NoMap
    ELSE [isNull |-> FALSE, map |-> [k \in DOMAIN pim.map |-> midQuarterIndex(pim, k)]]

----------------------------------------------------------------------------
(* Quarterly aggregation engine *)

\* A claim is [missing, accident, notify, settlement, payments, claimId];
\* missing names the fields that are null/undefined ("claim" for a null claim).
\* A payment is [date, amount]; amounts are fixed-point, AMT_UNIT per 1.0.
AMT_UNIT == 100

RequiredFields == {"claim", "accident", "notify", "settlement", "staticCovariates", "payments"}

\* the Map quarterlyPayments, in insertion order
RECURSIVE groupPayments(_, _, _)
groupPayments(payments, accident, acc) ==
    IF payments = <<>> THEN acc
    ELSE Only({Only({Only({
             groupPayments(Tail(payments), accident, acc2) :
             acc2 \in {[i \in DOMAIN acc1 |->
                          IF acc1[i].quarterKey = paymentQuarter.quarterKey
                          THEN [acc1[i] EXCEPT !.totalAmount = @ + payment.amount,
                                               !.paymentCount = @ + 1,
                                               !.payments = Append(@, payment)]
                          ELSE acc1[i]]}}) :
             acc1 \in {IF \E i \in DOMAIN acc : acc[i].quarterKey = paymentQuarter.quarterKey
                       THEN acc
                       ELSE Append(acc, [calendarYear |-> paymentQuarter.calendarYear,
                                         calendarQuarter |-> paymentQuarter.calendarQuarter,
                                         developmentQuarter |-> paymentQuarter.developmentQuarter,
                                         quarterKey |-> paymentQuarter.quarterKey,
                                         totalAmount |-> 0, paymentCount |-> 0,
                                         payments |-> <<>>])}}) :
             payment \in {Head(payments)},
             paymentQuarter \in {getQuarterInfo(Head(payments).date, accident)}})

\* new Date(claim.accident); setMonth(getMonth() + devQ * 3): local-time
\* fields of a host whose calendar date is tz days behind UTC at UTC midnight
emptyQuarterDate(accident, devQ, tz) ==
    Only({DateUTC(loc.y, loc.m0 + devQ * 3, loc.d) + tz : loc \in {CivilFromDays(accident - tz)}})

\* variant of the empty record that carries one unit when it is flagged as
\* inflation adjusted
emptyQuarterUnitWhenAdjusted(emptyQuarterInfo, devQ, observationEndDate) ==
    [calendarYear |-> emptyQuarterInfo.calendarYear,
     calendarQuarter |-> emptyQuarterInfo.calendarQuarter,
     developmentQuarter |-> devQ,
     quarterKey |-> emptyQuarterInfo.quarterKey,
     paymentCount |-> 0,
     payments |-> <<>>,
     nominalAmount |-> 0,
     totalAmount |-> IF observationEndDate # NoDate THEN 1 ELSE 0,
     inflationAdjusted |-> (observationEndDate # NoDate),
     targetPI |-> 0, sourceMidPI |-> 0]

\* the record pushed for a development quarter without payments
emptyQuarter(emptyQuarterInfo, devQ, observationEndDate) ==
    [calendarYear |-> emptyQuarterInfo.calendarYear,
     calendarQuarter |-> emptyQuarterInfo.calendarQuarter,
     developmentQuarter |-> devQ,
     quarterKey |-> emptyQuarterInfo.quarterKey,
     paymentCount |-> 0,
     payments |-> <<>>,
     nominalAmount |-> 0,
     totalAmount |-> 0,
     inflationAdjusted |-> (observationEndDate # NoDate),
     targetPI |-> 0, sourceMidPI |-> 0]

\* the record pushed for development quarter devQ
quarterRecord(claim, grouped, devQ, observationEndDate, pim, tz) ==
    IF \E i \in DOMAIN grouped : grouped[i].developmentQuarter = devQ
    THEN Only({
             IF observationEndDate # NoDate
             THEN Only({
                  LET nominalAmount == existingQuarter.totalAmount
                      adjusted      == IF targetPI # 0 /\ sourceMidPI # 0
                                       THEN (nominalAmount * targetPI) \div sourceMidPI
                                       ELSE nominalAmount
                  IN  [calendarYear |-> existingQuarter.calendarYear,
                       calendarQuarter |-> existingQuarter.calendarQuarter,
                       developmentQuarter |-> existingQuarter.developmentQuarter,
                       quarterKey |-> existingQuarter.quarterKey,
                       paymentCount |-> existingQuarter.paymentCount,
                       payments |-> existingQuarter.payments,
                       nominalAmount |-> nominalAmount,
                       totalAmount |-> adjusted,
                       inflationAdjusted |-> TRUE,
                       targetPI |-> targetPI, sourceMidPI |-> sourceMidPI] :
                  targetPI \in
                      {IF pim.isNull THEN 0
                       ELSE PI(pim.map, getQuarterInfo(observationEndDate, claim.accident).quarterKey)},
                  \* midMap[existingQuarter.quarterKey] of buildMidQuarterIndexMap(priceIndexMap)
                  sourceMidPI \in
                      {IF pim.isNull \/ existingQuarter.quarterKey \notin DOMAIN pim.map THEN 0
                       ELSE midQuarterIndex(pim, existingQuarter.quarterKey)}})
             ELSE [calendarYear |-> existingQuarter.calendarYear,
                   calendarQuarter |-> existingQuarter.calendarQuarter,
                   developmentQuarter |-> existingQuarter.developmentQuarter,
                   quarterKey |-> existingQuarter.quarterKey,
                   paymentCount |-> existingQuarter.paymentCount,
                   payments |-> existingQuarter.payments,
                   nominalAmount |-> existingQuarter.totalAmount,
                   totalAmount |-> existingQuarter.totalAmount,
                   inflationAdjusted |-> FALSE,
                   targetPI |-> 0, sourceMidPI |-> 0] :
             \* quarterlyPayments.values().find(q => q.developmentQuarter === devQ)
             existingQuarter \in
                 {grouped[CHOOSE j \in DOMAIN grouped :
                            (grouped[j].developmentQuarter = devQ) /\
                            (\A l \in DOMAIN grouped :
                                  grouped[l].developmentQuarter = devQ => j <= l)]}})
    ELSE Only({
             emptyQuarter(emptyQuarterInfo, devQ, observationEndDate) :
             emptyQuarterInfo \in
                 {getQuarterInfo(emptyQuarterDate(claim.accident, devQ, tz), claim.accident)}})

DEVQ_SPAN_LIMIT == 100

\* off-by-one variant of the loop: stops before endDevQuarter
devQuarterLoopExclusive(startDevQuarter, endDevQuarter) ==
    [n \in 1 .. (endDevQuarter - startDevQuarter) |-> startDevQuarter + n - 1]

\* for (let devQ = startDevQuarter; devQ <= endDevQuarter; devQ++)
devQuarterLoop(startDevQuarter, endDevQuarter) ==
    [n \in 1 .. (endDevQuarter - startDevQuarter + 1) |-> startDevQuarter + n - 1]

\* variant of the relabelling that moves the label by two
relabelDevQuarterByTwo(q, oneBased) ==
    IF oneBased THEN [q EXCEPT !.developmentQuarter = @ + 2] ELSE q

\* if (oneBasedDevQuarters) quarters.forEach(q => q.developmentQuarter += 1)
relabelDevQuarter(q, oneBased) ==
    IF oneBased THEN [q EXCEPT !.developmentQuarter = @ + 1] ELSE q

\* new Date(): the wall clock when an invalid claim is reported
Now == DateUTC(2026, 0, 1)

\* variant of the validation that does not look at staticCovariates
isInvalidBarCovariates(claim) ==
    claim.missing \cap (RequiredFields \ {"staticCovariates"}) # {}

\* !claim || !claim.accident || !claim.notify || !claim.settlement
\*        || !claim.staticCovariates || !claim.payments
isInvalid(claim) == claim.missing \cap RequiredFields # {}

aggregateClaimToQuarters(claim, oneBased, observationEndDate, pim, tz) ==
    IF isInvalid(claim)
    THEN [claimInfo |-> [claimId |-> "INVALID",
                         accidentDate |-> Now, notifyDate |-> Now, settlementDate |-> Now,
                         accidentQuarter |-> QuarterKey(2020, 1),
                         notifyQuarter |-> QuarterKey(2020, 1), notifyLag |-> 0],
          quarters |-> <<>>]
    ELSE Only({
         LET startDevQuarter   == accidentQuarter.developmentQuarter
             endDevQuarter     == settlementQuarter.developmentQuarter
             claimInfo == [claimId |-> claim.claimId,
                           accidentDate |-> claim.accident,
                           notifyDate |-> claim.notify,
                           settlementDate |-> claim.settlement,
                           accidentQuarter |-> accidentQuarter.quarterKey,
                           notifyQuarter |-> notifyQuarter.quarterKey,
                           notifyLag |-> notifyQuarter.developmentQuarter
                                         - accidentQuarter.developmentQuarter]
         IN  IF endDevQuarter < startDevQuarter
                \/ endDevQuarter - startDevQuarter > DEVQ_SPAN_LIMIT
             THEN [claimInfo |-> claimInfo, quarters |-> <<>>]
             ELSE [claimInfo |-> claimInfo,
                   quarters |->
                     Only({[n \in DOMAIN loop |->
                              Only({relabelDevQuarter(rec, oneBased) :
                                    rec \in {quarterRecord(claim, quarterlyPayments, loop[n],
                                                           observationEndDate, pim, tz)}})] :
                           loop \in {devQuarterLoop(startDevQuarter, endDevQuarter)}})] :
         accidentQuarter   \in {getQuarterInfo(claim.accident, claim.accident)},
         notifyQuarter     \in {getQuarterInfo(claim.notify, claim.accident)},
         settlementQuarter \in {getQuarterInfo(claim.settlement, claim.accident)},
         quarterlyPayments \in {groupPayments(claim.payments, claim.accident, <<>>)}})

----------------------------------------------------------------------------
(* Liability calculator (OutstandingLiabilityCalculation) *)

\* running sums of a sequence: out[i] = s[1] + ... + s[i]
RECURSIVE runningSums(_, _)
runningSums(s, carry) ==
    IF s = <<>> THEN <<>>
    ELSE <<carry + Head(s)>> \o runningSums(Tail(s), carry + Head(s))

\* variant that divides by the end-of-quarter index of the source quarter
adjustedThisQuarterEndOfQuarter(quarters, claimInfo, endDate_, pim, midMap) ==
    LET observationQuarterKey == getQuarterInfo(endDate_, claimInfo.accidentDate).quarterKey
        targetPI == IF pim.isNull THEN 0 ELSE PI(pim.map, observationQuarterKey)
    IN  [i \in DOMAIN quarters |->
            LET quarter == quarters[i]
                srcEoq  == IF pim.isNull THEN 0 ELSE PI(pim.map, quarter.quarterKey)
                amount  == IF quarter.nominalAmount # 0 THEN quarter.nominalAmount
                           ELSE quarter.totalAmount
            IN  IF targetPI # 0 /\ srcEoq # 0 THEN (amount * targetPI) \div srcEoq ELSE amount]

\* (quarter.nominalAmount || quarter.totalAmount) * factor, for every quarter
adjustedThisQuarter(quarters, claimInfo, endDate_, pim, midMap) ==
    LET observationQuarterKey == getQuarterInfo(endDate_, claimInfo.accidentDate).quarterKey
        targetPI == IF pim.isNull THEN 0 ELSE PI(pim.map, observationQuarterKey)
    IN  [i \in DOMAIN quarters |->
            LET quarter == quarters[i]
                mid     == IF midMap.isNull THEN 0 ELSE PI(midMap.map, quarter.quarterKey)
                srcMid  == IF mid # 0 THEN mid
                           ELSE IF pim.isNull THEN 0 ELSE PI(pim.map, quarter.quarterKey)
                amount  == IF quarter.nominalAmount # 0 THEN quarter.nominalAmount
                           ELSE quarter.totalAmount
            IN  IF targetPI # 0 /\ srcMid # 0 THEN (amount * targetPI) \div srcMid ELSE amount]

\* variant that counts the last quarter's nominal amount twice
ultimateClaimSizeDoubleLast(quarters, adjusted) ==
    SumSeq(adjusted) + (IF Len(quarters) > 0 THEN quarters[Len(quarters)].nominalAmount ELSE 0)

\* quarters.reduce((sum, q) => sum + adjusted(q), 0)
ultimateClaimSize(quarters, adjusted) == SumSeq(adjusted)

\* variant in which the running sum is overwritten instead of accumulated
cumulativeSumNoCarry(adjusted) == adjusted

\* cumulativeSum after each table row (cumulativeSum += adjustedThisQuarter)
cumulativeSum(adjusted) == runningSums(adjusted, 0)

\* the Outstanding Liability column, one entry per quarter
outstandingLiability(quarters, claimInfo, endDate_, pim, midMap) ==
    LET adjusted == adjustedThisQuarter(quarters, claimInfo, endDate_, pim, midMap)
        ultimate == ultimateClaimSize(quarters, adjusted)
        cum      == cumulativeSum(adjusted)
    IN  [i \in DOMAIN quarters |-> Max(0, ultimate - cum[i])]

(* CovariateHistorySummaries: the same quantities over devRange *)

\* adjustedIncrements: one entry per dq in minDevQ..maxDevQ, via byDev
adjustedIncrements(quarters, claimInfo, endDate_, pim, midMap) ==
    LET devQs    == {quarters[i].developmentQuarter : i \in DOMAIN quarters}
        minDevQ  == CHOOSE d \in devQs : \A e \in devQs : d <= e
        maxDevQ  == CHOOSE d \in devQs : \A e \in devQs : d >= e
        obsQ     == getQuarterInfo(endDate_, claimInfo.accidentDate)
        targetPI == IF pim.isNull THEN 0 ELSE PI(pim.map, obsQ.quarterKey)
        \* Object.fromEntries: the last record with that developmentQuarter
        byDev(dq) == quarters[CHOOSE i \in DOMAIN quarters :
                                 /\ quarters[i].developmentQuarter = dq
                                 /\ \A j \in DOMAIN quarters :
                                       quarters[j].developmentQuarter = dq => j <= i]
    IN  [n \in 1 .. (maxDevQ - minDevQ + 1) |->
            LET dq == minDevQ + n - 1
            IN  IF dq \notin devQs THEN 0
                ELSE LET q     == byDev(dq)
                         mid   == IF midMap.isNull THEN 0 ELSE PI(midMap.map, q.quarterKey)
                         srcPI == IF mid # 0 THEN mid
                                  ELSE IF pim.isNull THEN 0 ELSE PI(pim.map, q.quarterKey)
                     IN  IF srcPI # 0 /\ targetPI # 0
                         THEN (q.nominalAmount * targetPI) \div srcPI
                         ELSE q.nominalAmount]

cumulativeAdj(quarters, claimInfo, endDate_, pim, midMap) ==
    runningSums(adjustedIncrements(quarters, claimInfo, endDate_, pim, midMap), 0)

remainingAdj(quarters, claimInfo, endDate_, pim, midMap) ==
    LET cum         == cumulativeAdj(quarters, claimInfo, endDate_, pim, midMap)
        ultimateAdj == IF cum = <<>> THEN 0 ELSE cum[Len(cum)]
    IN  [i \in DOMAIN cum |-> Max(0, ultimateAdj - cum[i])]

\* Math.sqrt of a fixed-point square, rounded down to the fixed-point grid
sqrtOf(x) == sqrt(Word(x \div W16, x % W16))

\* sum of (v - mean)^2 over arr
squaredDeviations(arr, mean) ==
    SumSeq([i \in DOMAIN arr |-> (arr[i] - mean) * (arr[i] - mean)])

\* statsUpTo(arr, endIdx) of CovariateHistorySummaries, endIdx counted from
\* 0: n, sum, mean and sd of arr[0 .. endIdx]
statsUpTo(arr, endIdx) ==
    LET n == Max(0, endIdx + 1)
    IN  IF n = 0 THEN [n |-> 0, sum |-> 0, mean |-> 0, sd |-> 0]
        ELSE LET upTo   == SubSeq(arr, 1, n)
                 mean   == SumSeq(upTo) \div n
                 varSum == squaredDeviations(upTo, mean)
             IN  [n |-> n, sum |-> SumSeq(upTo), mean |-> mean,
                  sd |-> IF n > 1 THEN sqrtOf(varSum \div (n - 1)) ELSE 0]

(* NeuralNetworkPreprocessing: the features at the middle development quarter *)

\* incUpToCutoff: the adjusted increments of the quarters up to
\* cutoffDevQ = floor((minDevQ + maxDevQ) / 2)
incUpToCutoff(quarters, adjusted) ==
    LET devQs      == {quarters[i].developmentQuarter : i \in DOMAIN quarters}
        minDevQ    == CHOOSE d \in devQs : \A e \in devQs : d <= e
        maxDevQ    == CHOOSE d \in devQs : \A e \in devQs : d >= e
        cutoffDevQ == (minDevQ + maxDevQ) \div 2
        kept       == {i \in DOMAIN quarters : quarters[i].developmentQuarter <= cutoffDevQ}
    IN  IF quarters = <<>> THEN <<>>
        ELSE SelectSeq([i \in DOMAIN quarters |-> [i |-> i, v |-> adjusted[i]]],
                       LAMBDA x : x.i \in kept)

\* incStats: mean and sd of incUpToCutoff
incStats(quarters, adjusted) ==
    LET kept == incUpToCutoff(quarters, adjusted)
        inc  == [i \in DOMAIN kept |-> kept[i].v]
        mean == IF Len(inc) > 0 THEN SumSeq(inc) \div Len(inc) ELSE 0
    IN  [mean |-> mean,
         sd |-> IF Len(inc) > 1 THEN sqrtOf(squaredDeviations(inc, mean) \div Len(inc)) ELSE 0]

----------------------------------------------------------------------------
(* DevelopmentPeriodGeneration: the training rows of the selected claim *)

\* validNumRows = max(0, min(settlementQuarter, observationQuarter) - notifyQuarter + 1)
validNumRows(claimInfo, endDate_) ==
    LET notifyQuarter      == getQuarterInfo(claimInfo.notifyDate, claimInfo.accidentDate).developmentQuarter
        settlementQuarter  == getQuarterInfo(claimInfo.settlementDate, claimInfo.accidentDate).developmentQuarter
        observationQuarter == getQuarterInfo(endDate_, claimInfo.accidentDate).developmentQuarter
        maxObservableQuarter == Min(settlementQuarter, observationQuarter)
    IN  Max(0, maxObservableQuarter - notifyQuarter + 1)

\* the row count of the older inline view: max(0, min(20, settlementQuarter - notifyQuarter + 1))
LEGACY_ROW_CAP == 20
numRows(claimInfo) ==
    LET notifyQuarter     == getQuarterInfo(claimInfo.notifyDate, claimInfo.accidentDate).developmentQuarter
        settlementQuarter == getQuarterInfo(claimInfo.settlementDate, claimInfo.accidentDate).developmentQuarter
    IN  Max(0, Min(LEGACY_ROW_CAP, settlementQuarter - notifyQuarter + 1))

\* cumulativeToDate: the adjusted amounts of the records with
\* q.developmentQuarter <= currentQuarter
cumulativeToDate(quarters, adjusted, currentQuarter) ==
    SumSeq([j \in DOMAIN quarters |->
               IF quarters[j].developmentQuarter <= currentQuarter THEN adjusted[j] ELSE 0])

\* one entry per row of the "Training Rows Generated" table
trainingRows(claimInfo, quarters, endDate_, oneBased, pim, midMap) ==
    LET notifyQuarter == getQuarterInfo(claimInfo.notifyDate, claimInfo.accidentDate).developmentQuarter
        adjusted      == adjustedThisQuarter(quarters, claimInfo, endDate_, pim, midMap)
        ultimate      == ultimateClaimSize(quarters, adjusted)
    IN  [n \in 1 .. validNumRows(claimInfo, endDate_) |->
            LET currentQuarter == notifyQuarter + (n - 1)
                cum            == cumulativeToDate(quarters, adjusted, currentQuarter)
            IN  [currentQuarter |-> currentQuarter,
                 devPeriod |-> IF oneBased THEN currentQuarter + 1 ELSE currentQuarter,
                 cumulativeToDate |-> cum,
                 outstandingLiability |-> Max(0, ultimate - cum),
                 isZeroTarget |-> (Max(0, ultimate - cum) = 0)]]

----------------------------------------------------------------------------
(* Inputs of the aggregation specification *)

MaxPayments == 2           \* payments per input claim

WindowStart  == DateUTC(2020, 0, 1)
WindowEnds   == {DateUTC(2025, 0, 1), DateUTC(2034, 0, 1)}
AccidentDates == {DateUTC(2020, 0, 31), DateUTC(2020, 4, 15)}
NotifyLags   == {7, 60}
Durations    == {40, 200, 4752}
PayOffsets   == {1, 100, 4650, 4752}
PayAmounts   == {1 * AMT_UNIT, 9 * AMT_UNIT}
SeedTexts    == {<<97>>, <<105, 110, 115>>}

\* an observation cutoff before the window end: in the first quarter of the
\* window, before every claim of the second accident date
EarlyEnds       == {DateUTC(2020, 2, 1)}

\* a window of 27 years
LongWindowEnds  == {DateUTC(2047, 0, 1)}

\* date-ordered payment sequences with dates in (notify, settlement]
PaymentSeqs(notify, settlement) ==
    LET opts == {[date |-> notify + o, amount |-> a] :
                    o \in {x \in PayOffsets : notify + x <= settlement}, a \in PayAmounts}
    IN  UNION {{p \in [1 .. n -> opts] : \A i \in 1 .. n - 1 : p[i].date <= p[i + 1].date} :
               n \in 0 .. MaxPayments}

\* well-formed claims inside the window ending at e
ClaimInputs(e) ==
    UNION {{[missing |-> {}, accident |-> acc, notify |-> acc + lag,
             settlement |-> acc + lag + dur, payments |-> ps, claimId |-> "CLM-0001"] :
                ps \in PaymentSeqs(acc + lag, acc + lag + dur)} :
           <<acc, lag, dur>> \in {t \in AccidentDates \X NotifyLags \X Durations :
                                    /\ t[1] + t[2] >= WindowStart
                                    /\ t[1] + t[2] + t[3] <= e}}

\* claims of the long window that take 9500 days, more than 100 quarters, to
\* settle, with at most one payment
LongClaimInputs(e) ==
    UNION {{[missing |-> {}, accident |-> acc, notify |-> acc + lag,
             settlement |-> acc + lag + dur, payments |-> ps, claimId |-> "CLM-0001"] :
                ps \in {p \in PaymentSeqs(acc + lag, acc + lag + dur) : Len(p) <= 1}} :
           <<acc, lag, dur>> \in {t \in AccidentDates \X NotifyLags \X {9500} :
                                    /\ t[1] + t[2] >= WindowStart
                                    /\ t[1] + t[2] + t[3] <= e}}

\* malformed claims: a claim with one required field missing (or null
\* itself), and claims settled in a quarter before the accident's quarter
MalformedClaims ==
    {[missing |-> {f}, accident |-> DateUTC(2020, 4, 15), notify |-> DateUTC(2020, 4, 22),
      settlement |-> DateUTC(2020, 11, 8),
      payments |-> <<[date |-> DateUTC(2020, 7, 30), amount |-> 9 * AMT_UNIT]>>,
      claimId |-> "CLM-0001"] : f \in RequiredFields}
    \cup
    {[missing |-> {}, accident |-> DateUTC(2020, 4, 15), notify |-> DateUTC(2020, 4, 22),
      settlement |-> DateUTC(2020, 2, 16), payments |-> ps, claimId |-> "CLM-0001"] :
        ps \in {<<>>, <<[date |-> DateUTC(2020, 2, 10), amount |-> 9 * AMT_UNIT]>>,
                <<[date |-> DateUTC(2020, 7, 30), amount |-> 9 * AMT_UNIT]>>}}

\* generatePriceIndexSeries(WindowStart, e, hashStringToSeed(seedText)).map,
\* tabulated once for the windows and seeds of the model
PriceIndexTable ==
    CHOOSE table \in {[e \in WindowEnds \cup EarlyEnds \cup LongWindowEnds,
                         seedText \in SeedTexts |->
                         generatePriceIndexSeries(WindowStart, e, hashStringToSeed(seedText))]} :
        table = table


Aggregated(claim, oneBased, obsEnd, pim) ==
    aggregateClaimToQuarters(claim, oneBased, obsEnd, pim, tzBehind)

----------------------------------------------------------------------------
(* Construction defaults of the other components *)

SplitIdle ==
    /\ startDateStr = DateUTC(2020, 0, 1)
    /\ endDateStr = DateUTC(2025, 0, 1)
    /\ trainCutStr = DateUTC(2021, 5, 30)
    /\ valCutStr = DateUTC(2023, 5, 30)
    /\ testCutStr = DateUTC(2025, 0, 1)
    /\ claims = <<>>
    /\ splitMode = "settlement"
    /\ rows = <<>>
    /\ didInitCuts = FALSE
    /\ selectedClaimIndex = 0

GenIdle ==
    /\ rngState = Word(0, 0)
    /\ genParams = [n |-> 0, seedText |-> <<>>, maxPartials |-> 0]
    /\ genRuns = <<>>

----------------------------------------------------------------------------
(* Aggregation specification: the quarterly preprocessing view *)

\* claims whose accident falls on the last day of a quarter
MonthEndClaims ==
    {[missing |-> {}, accident |-> DateUTC(2020, 2, 31), notify |-> DateUTC(2020, 2, 31) + 7,
      settlement |-> DateUTC(2020, 9, 17), payments |-> ps, claimId |-> "CLM-0001"] :
        ps \in {<<>>, <<[date |-> DateUTC(2020, 3, 20), amount |-> 9 * AMT_UNIT]>>}}

AggInit ==
    /\ tzBehind \in {0, 1}
    /\ endDate \in WindowEnds \cup LongWindowEnds
    /\ selectedClaim \in (IF endDate \in WindowEnds
                          THEN ClaimInputs(endDate) \cup MalformedClaims \cup MonthEndClaims
                          ELSE LongClaimInputs(endDate))
    /\ oneBasedDevQuarters \in BOOLEAN
    /\ priceIndexMap = NoMap
    /\ midQuarterIndexMap = buildMidQuarterIndexMap(priceIndexMap)
    /\ quarterlyData = Aggregated(selectedClaim, oneBasedDevQuarters, endDate, priceIndexMap)
    /\ SplitIdle
    /\ GenIdle

\* the "1-based dev quarters" checkbox
SetOneBasedDevQuarters(b) ==
    /\ b # oneBasedDevQuarters
    /\ oneBasedDevQuarters' = b
    /\ quarterlyData' = Aggregated(selectedClaim, b, endDate, priceIndexMap)
    /\ UNCHANGED <<selectedClaim, endDate, priceIndexMap, midQuarterIndexMap, tzBehind,
                   splitVars, genVars>>

\* the price index is (re)generated for the window from the seed text
SetPriceIndexMap(seedText) ==
    /\ endDate # NoDate
    /\ priceIndexMap' = PriceIndexTable[endDate, seedText]
    /\ priceIndexMap' # priceIndexMap
    /\ midQuarterIndexMap' = buildMidQuarterIndexMap(priceIndexMap')
    /\ quarterlyData' = Aggregated(selectedClaim, oneBasedDevQuarters, endDate, priceIndexMap')
    /\ UNCHANGED <<selectedClaim, oneBasedDevQuarters, endDate, tzBehind, splitVars, genVars>>

\* aggregation called without endDate / priceIndexMap (the defaults)
ClearObservation ==
    /\ endDate # NoDate
    /\ endDate' = NoDate
    /\ priceIndexMap' = NoMap
    /\ midQuarterIndexMap' = NoMap
    /\ quarterlyData' = Aggregated(selectedClaim, oneBasedDevQuarters, NoDate, NoMap)
    /\ UNCHANGED <<selectedClaim, oneBasedDevQuarters, tzBehind, splitVars, genVars>>

\* the view is rendered with an earlier observation cutoff (the endDate
\* prop); the price index is regenerated for the window that ends there
SetEndDate(e, seedText) ==
    /\ e # endDate
    /\ endDate' = e
    /\ priceIndexMap' = PriceIndexTable[e, seedText]
    /\ midQuarterIndexMap' = buildMidQuarterIndexMap(priceIndexMap')
    /\ quarterlyData' = Aggregated(selectedClaim, oneBasedDevQuarters, e, priceIndexMap')
    /\ UNCHANGED <<selectedClaim, oneBasedDevQuarters, tzBehind, splitVars, genVars>>

AggNext ==
    \/ \E b \in BOOLEAN : SetOneBasedDevQuarters(b)
    \/ \E e \in EarlyEnds, seedText \in SeedTexts : SetEndDate(e, seedText)
    \/ \E seedText \in SeedTexts : SetPriceIndexMap(seedText)
    \/ ClearObservation

AggSpec == AggInit /\ [][AggNext]_vars

----------------------------------------------------------------------------
(* Dataset split & censoring engine (ClaimsDiagram) *)

\* new Date(str) for a date input: a day number, or InvalidDate when the
\* text does not parse
DEFAULT_START == DateUTC(2020, 0, 1)
DEFAULT_END   == DateUTC(2025, 0, 1)

\* [startDate, endDate] useMemo
Window(sStr, eStr) ==
    LET sOk == IF sStr # InvalidDate THEN sStr ELSE DEFAULT_START
        eOk == IF eStr # InvalidDate THEN eStr ELSE DEFAULT_END
    IN  IF sOk < eOk THEN <<sOk, eOk>> ELSE <<eOk, sOk>>

startDate == Window(startDateStr, endDateStr)[1]
windowEnd == Window(startDateStr, endDateStr)[2]

\* Array.prototype.sort on day numbers (ascending, stable)
RECURSIVE insertSorted(_, _)
insertSorted(sorted, x) ==
    IF sorted = <<>> THEN <<x>>
    ELSE IF x < Head(sorted) THEN <<x>> \o sorted
    ELSE <<Head(sorted)>> \o insertSorted(Tail(sorted), x)

RECURSIVE sortDates(_)
sortDates(s) ==
    IF s = <<>> THEN <<>>
    ELSE Only({insertSorted(init, s[Len(s)]) : init \in {sortDates(SubSeq(s, 1, Len(s) - 1))}})

\* [trainCut, valCut, testCut] useMemo: clamp & sort the cutoffs
Cutoffs(tStr, vStr, xStr, sStr, eStr) ==
    Only({Only({
        IF Len(candidates) # 3
        THEN <<clampDate(DateUTC(2021, 0, 1), lo, hi),
               clampDate(DateUTC(2023, 0, 1), lo, hi),
               clampDate(DateUTC(2025, 0, 1), lo, hi)>>
        ELSE candidates :
        candidates \in {sortDates([i \in DOMAIN valid |-> clampDate(valid[i], lo, hi)])}}) :
        <<lo, hi>> \in {Window(sStr, eStr)},
        valid \in {SelectSeq(<<tStr, vStr, xStr>>, LAMBDA d : d # InvalidDate)}})

trainCut == Cutoffs(trainCutStr, valCutStr, testCutStr, startDateStr, endDateStr)[1]
valCut   == Cutoffs(trainCutStr, valCutStr, testCutStr, startDateStr, endDateStr)[2]
testCut  == Cutoffs(trainCutStr, valCutStr, testCutStr, startDateStr, endDateStr)[3]

\* datasetForNotify with the boundaries on the other side
datasetForNotifyInclusive(t, cuts, hi) ==
    IF t <= cuts[1] THEN [name |-> "train", cutoff |-> cuts[1]]
    ELSE IF t <= cuts[2] THEN [name |-> "val", cutoff |-> cuts[2]]
    ELSE IF t <= cuts[3] THEN [name |-> "test", cutoff |-> cuts[3]]
    ELSE [name |-> "post", cutoff |-> hi]

\* cuts = <<trainCut, valCut, testCut>>, hi = endDate
datasetForNotify(t, cuts, hi) ==
    IF t < cuts[1] THEN [name |-> "train", cutoff |-> cuts[1]]
    ELSE IF t < cuts[2] THEN [name |-> "val", cutoff |-> cuts[2]]
    ELSE IF t < cuts[3] THEN [name |-> "test", cutoff |-> cuts[3]]
    ELSE [name |-> "post", cutoff |-> hi]

\* datasetForSettlement with the boundaries on the other side
datasetForSettlementExclusive(t, cuts) ==
    IF t < cuts[1] THEN [name |-> "train", cutoff |-> cuts[1]]
    ELSE IF t < cuts[2] THEN [name |-> "val", cutoff |-> cuts[2]]
    ELSE IF t < cuts[3] THEN [name |-> "test", cutoff |-> cuts[3]]
    ELSE [name |-> "none", cutoff |-> NoDate]

\* name "none" stands for the null result
datasetForSettlement(t, cuts) ==
    IF t <= cuts[1] THEN [name |-> "train", cutoff |-> cuts[1]]
    ELSE IF t <= cuts[2] THEN [name |-> "val", cutoff |-> cuts[2]]
    ELSE IF t <= cuts[3] THEN [name |-> "test", cutoff |-> cuts[3]]
    ELSE [name |-> "none", cutoff |-> NoDate]

NoIndex == -1              \* linkFrom of a row that has none

\* a row object; a field the code leaves out is NoDate / NoIndex / FALSE
Row(c, dataset, cutoff, isCensored, observedEnd, isDuplicate, hasDuplicate, leakUntil, linkFrom) ==
    [claim |-> c, dataset |-> dataset, cutoff |-> cutoff, isCensored |-> isCensored,
     observedEnd |-> observedEnd, isDuplicate |-> isDuplicate, hasDuplicate |-> hasDuplicate,
     leakUntil |-> leakUntil, linkFrom |-> linkFrom]

\* the row pushed for a claim settled at/after testCut
postRow(c, cuts) == Row(c, "post", cuts[3], TRUE, cuts[3], FALSE, FALSE, NoDate, NoIndex)

\* the TRAIN -> VAL test on a half-open interval [trainCut, valCut)
duplicatesIntoValHalfOpen(ds, c, cuts) ==
    ds.name = "train" /\ c.settlement >= cuts[1] /\ c.settlement < cuts[2]

\* Duplicate TRAIN -> VAL
duplicatesIntoVal(ds, c, cuts) ==
    ds.name = "train" /\ c.settlement > cuts[1] /\ c.settlement <= cuts[2]

\* the VAL -> TEST test on a half-open interval [valCut, testCut)
duplicatesIntoTestHalfOpen(ds, c, cuts) ==
    ds.name = "val" /\ c.settlement >= cuts[2] /\ c.settlement < cuts[3]

\* Duplicate VAL -> TEST
duplicatesIntoTest(ds, c, cuts) ==
    ds.name = "val" /\ c.settlement > cuts[2] /\ c.settlement <= cuts[3]

\* variant of the primary row that is never flagged as having a duplicate
notifyRowNeverFlagged(c, cuts, hi, hasDuplicate) ==
    LET ds          == datasetForNotify(c.notify, cuts, hi)
        baseCutoff  == IF ds.name = "post" THEN hi ELSE ds.cutoff
        isCensored  == ds.name # "post" /\ c.notify < baseCutoff /\ c.settlement > baseCutoff
        observedEnd == IF isCensored THEN baseCutoff ELSE c.settlement
    IN  Row(c, ds.name, baseCutoff, isCensored, observedEnd, FALSE, FALSE, NoDate, NoIndex)

\* the primary row of the notification-date modes
notifyRow(c, cuts, hi, hasDuplicate) ==
    LET ds          == datasetForNotify(c.notify, cuts, hi)
        baseCutoff  == IF ds.name = "post" THEN hi ELSE ds.cutoff
        isCensored  == ds.name # "post" /\ c.notify < baseCutoff /\ c.settlement > baseCutoff
        observedEnd == IF isCensored THEN baseCutoff ELSE c.settlement
    IN  Row(c, ds.name, baseCutoff, isCensored, observedEnd, FALSE, hasDuplicate, NoDate, NoIndex)

\* variant in which a duplicated claim's primary row is shown uncensored
rowsForClaimUncensoringPrimary(c, mode, cuts, hi, out) ==
    IF c.notify >= cuts[3] THEN <<>>
    ELSE IF mode = "notify" THEN
        IF c.settlement >= cuts[3] THEN <<postRow(c, cuts)>>
        ELSE <<notifyRow(c, cuts, hi, FALSE)>>
    ELSE IF mode = "notifyDup" THEN
        IF c.settlement >= cuts[3] THEN <<postRow(c, cuts)>>
        ELSE LET ds        == datasetForNotify(c.notify, cuts, hi)
                 baseIndex == Len(out)
                 dupVal    == duplicatesIntoVal(ds, c, cuts)
                 dupTest   == duplicatesIntoTest(ds, c, cuts)
             IN  <<IF dupVal \/ dupTest
                   THEN [notifyRow(c, cuts, hi, TRUE) EXCEPT !.isCensored = FALSE,
                                                            !.observedEnd = c.settlement]
                   ELSE notifyRow(c, cuts, hi, FALSE)>>
                 \o (IF dupVal
                     THEN <<Row(c, "val", cuts[2], FALSE, c.settlement, TRUE, FALSE, cuts[1], baseIndex)>>
                     ELSE <<>>)
                 \o (IF dupTest
                     THEN <<Row(c, "test", cuts[3], FALSE, c.settlement, TRUE, FALSE, cuts[2], baseIndex)>>
                     ELSE <<>>)
    ELSE IF mode = "settlement" THEN
        IF c.settlement >= cuts[3] THEN <<postRow(c, cuts)>>
        ELSE LET ds == datasetForSettlement(c.settlement, cuts)
             IN  IF ds.name = "none" THEN <<>>
                 ELSE <<Row(c, ds.name, ds.cutoff, FALSE, c.settlement, FALSE, FALSE, NoDate, NoIndex)>>
    ELSE <<>>

\* the rows one claim appends to out (out holds the rows pushed so far)
rowsForClaim(c, mode, cuts, hi, out) ==
    IF c.notify >= cuts[3] THEN <<>>
    ELSE IF mode = "notify" THEN
        IF c.settlement >= cuts[3] THEN <<postRow(c, cuts)>>
        ELSE <<notifyRow(c, cuts, hi, FALSE)>>
    ELSE IF mode = "notifyDup" THEN
        IF c.settlement >= cuts[3] THEN <<postRow(c, cuts)>>
        ELSE LET ds        == datasetForNotify(c.notify, cuts, hi)
                 baseIndex == Len(out)
                 dupVal    == duplicatesIntoVal(ds, c, cuts)
                 dupTest   == duplicatesIntoTest(ds, c, cuts)
             IN  <<notifyRow(c, cuts, hi, dupVal \/ dupTest)>>
                 \o (IF dupVal
                     THEN <<Row(c, "val", cuts[2], FALSE, c.settlement, TRUE, FALSE, cuts[1], baseIndex)>>
                     ELSE <<>>)
                 \o (IF dupTest
                     THEN <<Row(c, "test", cuts[3], FALSE, c.settlement, TRUE, FALSE, cuts[2], baseIndex)>>
                     ELSE <<>>)
    ELSE IF mode = "settlement" THEN
        IF c.settlement >= cuts[3] THEN <<postRow(c, cuts)>>
        ELSE LET ds == datasetForSettlement(c.settlement, cuts)
             IN  IF ds.name = "none" THEN <<>>
                 ELSE <<Row(c, ds.name, ds.cutoff, FALSE, c.settlement, FALSE, FALSE, NoDate, NoIndex)>>
    ELSE <<>>

RECURSIVE buildRowsFrom(_, _, _, _, _)
buildRowsFrom(localClaims, mode, cuts, hi, out) ==
    IF localClaims = <<>> THEN out
    ELSE Only({buildRowsFrom(Tail(localClaims), mode, cuts, hi, next) :
               next \in {out \o rowsForClaim(Head(localClaims), mode, cuts, hi, out)}})

buildRows(localClaims, mode, cuts, hi) == buildRowsFrom(localClaims, mode, cuts, hi, <<>>)

\* parsedCustom: clamp every custom claim into the window and sort by notify
RECURSIVE insertByNotify(_, _)
insertByNotify(sorted, c) ==
    IF sorted = <<>> THEN <<c>>
    ELSE IF c.notify < Head(sorted).notify THEN <<c>> \o sorted
    ELSE <<Head(sorted)>> \o insertByNotify(Tail(sorted), c)

RECURSIVE sortByNotify(_)
sortByNotify(s) ==
    IF s = <<>> THEN <<>>
    ELSE Only({insertByNotify(init, s[Len(s)]) : init \in {sortByNotify(SubSeq(s, 1, Len(s) - 1))}})

parsedCustom(data, lo, hi) ==
    Only({sortByNotify(mapped) :
          mapped \in {[i \in DOMAIN data |->
                         Only({[notify |-> notify,
                                settlement |-> clampDate(data[i].settlement, notify, hi),
                                partials |-> <<>>] :
                               notify \in {clampDate(data[i].notify, lo, hi)}})]}})

----------------------------------------------------------------------------
(* Split specification: the claims diagram with custom claims *)

MaxClaims == 2             \* custom claims in the JSON text

\* the dates typed into the cutoff inputs, and those typed into the custom
\* JSON: the same and one date before all of them
CutDates   == {DateUTC(2021, 5, 30), DateUTC(2021, 7, 1), DateUTC(2023, 5, 30), DateUTC(2025, 0, 1)}
SplitDates == CutDates \cup {DateUTC(2021, 0, 1)}
CutTexts   == CutDates \cup {InvalidDate}
SplitModes == {"notify", "settlement", "notifyDup"}

CustomTexts ==
    UNION {[1 .. n -> [notify : SplitDates, settlement : SplitDates]] : n \in 0 .. MaxClaims}

\* the rows useMemo
currentRows(localClaims, mode, tStr, vStr, xStr) ==
    Only({buildRows(localClaims, mode, cuts, hi) :
          cuts \in {Cutoffs(tStr, vStr, xStr, startDateStr, endDateStr)},
          hi   \in {Window(startDateStr, endDateStr)[2]}})

AggIdle ==
    /\ tzBehind = 0
    /\ endDate = DateUTC(2025, 0, 1)
    /\ selectedClaim = [missing |-> {}, accident |-> DateUTC(2020, 0, 31),
                        notify |-> DateUTC(2020, 0, 31) + 7,
                        settlement |-> DateUTC(2020, 0, 31) + 47,
                        payments |-> <<>>, claimId |-> "CLM-0001"]
    /\ oneBasedDevQuarters = FALSE
    /\ priceIndexMap = NoMap
    /\ midQuarterIndexMap = buildMidQuarterIndexMap(priceIndexMap)
    /\ quarterlyData = Aggregated(selectedClaim, oneBasedDevQuarters, endDate, priceIndexMap)

SplitInit ==
    /\ startDateStr = DEFAULT_START
    /\ endDateStr = DEFAULT_END
    /\ trainCutStr = DateUTC(2021, 5, 30)
    /\ valCutStr = DateUTC(2023, 5, 30)
    /\ testCutStr = DateUTC(2025, 0, 1)
    /\ splitMode = "settlement"
    /\ \E data \in CustomTexts :
          claims = parsedCustom(data, Window(startDateStr, endDateStr)[1],
                                Window(startDateStr, endDateStr)[2])
    /\ rows = currentRows(claims, splitMode, trainCutStr, valCutStr, testCutStr)
    /\ didInitCuts = TRUE
    /\ selectedClaimIndex = 0
    /\ AggIdle
    /\ GenIdle

\* the split-mode radio buttons
SetSplitMode(m) ==
    /\ m # splitMode
    /\ splitMode' = m
    /\ rows' = currentRows(claims, m, trainCutStr, valCutStr, testCutStr)
    /\ UNCHANGED <<startDateStr, endDateStr, trainCutStr, valCutStr, testCutStr, claims,
                   didInitCuts, selectedClaimIndex, aggVars, genVars>>

\* the three cutoff date inputs
SetTrainCutStr(v) ==
    /\ v # trainCutStr
    /\ trainCutStr' = v
    /\ rows' = currentRows(claims, splitMode, v, valCutStr, testCutStr)
    /\ UNCHANGED <<startDateStr, endDateStr, valCutStr, testCutStr, claims, splitMode,
                   didInitCuts, selectedClaimIndex, aggVars, genVars>>

SetValCutStr(v) ==
    /\ v # valCutStr
    /\ valCutStr' = v
    /\ rows' = currentRows(claims, splitMode, trainCutStr, v, testCutStr)
    /\ UNCHANGED <<startDateStr, endDateStr, trainCutStr, testCutStr, claims, splitMode,
                   didInitCuts, selectedClaimIndex, aggVars, genVars>>

SetTestCutStr(v) ==
    /\ v # testCutStr
    /\ testCutStr' = v
    /\ rows' = currentRows(claims, splitMode, trainCutStr, valCutStr, v)
    /\ UNCHANGED <<startDateStr, endDateStr, trainCutStr, valCutStr, claims, splitMode,
                   didInitCuts, selectedClaimIndex, aggVars, genVars>>

\* a click on the diagram row at position idx (counted from 0)
SelectRow(idx) ==
    /\ idx < Len(rows)
    /\ selectedClaimIndex' = idx
    /\ UNCHANGED <<startDateStr, endDateStr, trainCutStr, valCutStr, testCutStr, claims,
                   splitMode, rows, didInitCuts, aggVars, genVars>>

\* claims[selectedClaimIndex]; undefined past the end of the list
NoClaim == [notify |-> NoDate, settlement |-> NoDate, partials |-> <<>>]
selectedClaimAt(localClaims, index) ==
    IF index + 1 \in DOMAIN localClaims THEN localClaims[index + 1] ELSE NoClaim

SplitNext ==
    \/ \E idx \in 0 .. (2 * MaxClaims - 1) : SelectRow(idx)
    \/ \E m \in SplitModes : SetSplitMode(m)
    \/ \E v \in CutTexts : SetTrainCutStr(v)
    \/ \E v \in CutTexts : SetValCutStr(v)
    \/ \E v \in CutTexts : SetTestCutStr(v)

SplitSpec == SplitInit /\ [][SplitNext]_vars

----------------------------------------------------------------------------
(* Claim generation *)

POSTCODES   == <<"2000", "3000", "4000", "5000", "6000", "7000", "1000">>
CLAIM_TYPES == <<"Motor", "Property", "Liability", "Workers Comp">>
REGIONS     == <<"Metro", "Regional", "Remote">>

\* `CLM-${String(i + 1).padStart(4, '0')}` as the prefix and the digits
claimIdOf(i) ==
    LET k == i + 1
    IN  IF k < 10000
        THEN <<"CLM-", k \div 1000, (k \div 100) % 10, (k \div 10) % 10, k % 10>>
        ELSE <<"CLM-", k>>

\* the generator reads the state of a generator created before the call
randShared(seed) == rngState

\* const rand = mulberry32(seed): the state a fresh generator starts from
randFresh(seed) == seed

\* the payment loop with the two draws swapped: the amount before the date
RECURSIVE drawPaymentsAmountFirst(_, _, _, _, _)
drawPaymentsAmountFirst(a, k, notify, settlement, acc) ==
    IF k = 0 THEN [a |-> a, payments |-> acc]
    ELSE Only({Only({Only({
             drawPaymentsAmountFirst(r2.a, k - 1, notify, settlement, acc1) :
             acc1 \in {LET spanDays == Max(1, daysBetween(notify, settlement))
                           amount   == 1 + floorMul(r1.v, 9)
                           t        == addDays(notify, floorMul(r2.v, spanDays))
                       IN  Append(acc, [date |-> t, amount |-> amount])}}) :
             r2 \in {mulberry32(r1.a)}}) :
             r1 \in {mulberry32(a)}})

\* the payment loop: k draws of a date and an amount
RECURSIVE drawPayments(_, _, _, _, _)
drawPayments(a, k, notify, settlement, acc) ==
    IF k = 0 THEN [a |-> a, payments |-> acc]
    ELSE Only({Only({Only({
             drawPayments(r2.a, k - 1, notify, settlement, acc1) :
             acc1 \in {LET spanDays == Max(1, daysBetween(notify, settlement))
                           t        == addDays(notify, floorMul(r1.v, spanDays))
                           amount   == 1 + floorMul(r2.v, 9)
                       IN  Append(acc, [date |-> t, amount |-> amount])}}) :
             r2 \in {mulberry32(r1.a)}}) :
             r1 \in {mulberry32(a)}})

\* payments.sort by date (stable)
RECURSIVE insertByDate(_, _)
insertByDate(sorted, x) ==
    IF sorted = <<>> THEN <<x>>
    ELSE IF x.date < Head(sorted).date THEN <<x>> \o sorted
    ELSE <<Head(sorted)>> \o insertByDate(Tail(sorted), x)

\* variant that leaves the payments in the order they were drawn
keepDrawnOrder(s) == s

RECURSIVE sortByDate(_)
sortByDate(s) ==
    IF s = <<>> THEN <<>>
    ELSE Only({insertByDate(init, s[Len(s)]) : init \in {sortByDate(SubSeq(s, 1, Len(s) - 1))}})

\* variant of the dedupe loop that drops the later payments of a month
RECURSIVE dedupePaymentsDropping(_, _)
dedupePaymentsDropping(payments, deduped) ==
    IF payments = <<>> THEN deduped
    ELSE IF \E i \in DOMAIN deduped :
               monthKeyUTC(deduped[i].date) = monthKeyUTC(Head(payments).date)
         THEN dedupePaymentsDropping(Tail(payments), deduped)
         ELSE dedupePaymentsDropping(Tail(payments), Append(deduped, Head(payments)))

\* the dedupeMonthly loop: a payment in a month already seen is added to
\* the first payment of that month
RECURSIVE dedupePayments(_, _)
dedupePayments(payments, deduped) ==
    IF payments = <<>> THEN deduped
    ELSE Only({Only({Only({
             dedupePayments(Tail(payments), next) :
             next \in {IF hit = {} THEN Append(deduped, x)
                       ELSE LET first == CHOOSE i \in hit : \A j \in hit : i <= j
                            IN  [deduped EXCEPT ![first].amount = @ + x.amount]}}) :
             hit \in {{i \in DOMAIN deduped : monthKeyUTC(deduped[i].date) = key}}}) :
             x \in {Head(payments)}, key \in {monthKeyUTC(Head(payments).date)}})

\* one iteration of the claim loop, from the generator state a
drawClaim(a, i, startDate_, endDate_, minDurDays, maxDurDays, maxPartials, dedupeMonthly) ==
    Only({Only({Only({Only({Only({Only({Only({Only({
        [a     |-> r7.a,
         claim |-> [accident |-> addDays(notify, 0 - accidentOffset),
                    notify |-> notify, settlement |-> settlement,
                    partials |-> [j \in DOMAIN payments |-> payments[j].date],
                    payments |-> payments,
                    staticCovariates |->
                        [postcode  |-> POSTCODES[1 + floorMul(r5.v, Len(POSTCODES))],
                         claimType |-> CLAIM_TYPES[1 + floorMul(r6.v, Len(CLAIM_TYPES))],
                         region    |-> REGIONS[1 + floorMul(r7.v, Len(REGIONS))],
                         claimId   |-> claimIdOf(i)]]] :
        r7 \in {mulberry32(r6.a)}}) :
        r6 \in {mulberry32(r5.a)}}) :
        r5 \in {mulberry32(drawn.a)},
        payments \in
            {LET kept == sortByDate(SelectSeq(drawn.payments,
                                              LAMBDA x : x.date > notify /\ x.date <= settlement))
             IN  IF dedupeMonthly THEN dedupePayments(kept, <<>>) ELSE kept}}) :
        drawn \in
            {LET k == IF daysBetween(notify, settlement) < 2 THEN 0
                      ELSE floorMul(r4.v, maxPartials + 1)
             IN  drawPayments(r4.a, k, notify, settlement, <<>>)}}) :
        r4 \in {mulberry32(r3.a)},
        settlement \in
            {LET dur           == minDurDays + floorMul(r3.v, Max(1, maxDurDays - minDurDays + 1))
                 rawSettlement == addDays(notify, dur)
             IN  IF rawSettlement > endDate_ THEN endDate_ ELSE rawSettlement}}) :
        r3 \in {mulberry32(r2.a)},
        notify \in
            {addDays(startDate_, IF latestNotify = 0 THEN 0 ELSE floorMul(r2.v, latestNotify))}}) :
        r2 \in {mulberry32(r1.a)},
        accidentOffset \in {7 + floorMul(r1.v, 54)}}) :
        r1 \in {mulberry32(a)},
        latestNotify \in {Max(0, Max(1, daysBetween(startDate_, endDate_)) - minDurDays)}})

\* the claim loop for i, ..., n - 1
RECURSIVE claimLoop(_, _, _, _, _, _, _, _, _, _)
claimLoop(a, i, n, startDate_, endDate_, minDurDays, maxDurDays, maxPartials, dedupeMonthly, acc) ==
    IF i >= n THEN [a |-> a, claims |-> acc]
    ELSE Only({claimLoop(r.a, i + 1, n, startDate_, endDate_, minDurDays, maxDurDays,
                         maxPartials, dedupeMonthly, Append(acc, r.claim)) :
               r \in {drawClaim(a, i, startDate_, endDate_, minDurDays, maxDurDays, maxPartials,
                                dedupeMonthly)}})

\* returns the sorted claims and the state the generator is left in
generateClaims(n, startDate_, endDate_, minDurDays, maxDurDays, maxPartials, seed, dedupeMonthly) ==
    Only({[a |-> run.a, claims |-> sortByNotify(run.claims)] :
          run \in {claimLoop(randFresh(seed), 0, n, startDate_, endDate_, minDurDays, maxDurDays,
                             maxPartials, dedupeMonthly, <<>>)}})

----------------------------------------------------------------------------
(* Generation specification: autoClaims recomputed when a parameter changes *)

MaxGenClaims == 2          \* numClaims tried
MaxRuns      == 3          \* generateClaims calls recorded

MIN_DUR_DAYS == 180
MAX_DUR_DAYS == 1095
DEDUPE_MONTHLY == TRUE
GenSeedTexts == {<<97>>, <<98>>, <<105, 110, 115>>}
PartialsTried == {0, 4}

autoClaims(params) ==
    generateClaims(params.n, DEFAULT_START, DEFAULT_END, MIN_DUR_DAYS, MAX_DUR_DAYS,
                   params.maxPartials, hashStringToSeed(params.seedText), DEDUPE_MONTHLY)

\* the autoClaims useMemo runs for the parameters p
Regenerate(p) ==
    /\ Len(genRuns) < MaxRuns
    /\ genParams' = p
    /\ \E run \in {autoClaims(p)} :
          /\ rngState' = run.a
          /\ genRuns' = Append(genRuns, [params |-> p, claims |-> run.claims])
    /\ UNCHANGED <<aggVars, splitVars>>

GenInit ==
    /\ genParams \in [n : 1 .. MaxGenClaims, seedText : GenSeedTexts, maxPartials : PartialsTried]
    /\ rngState = Word(0, 0)
    /\ genRuns = <<>>
    /\ AggIdle
    /\ SplitIdle

\* the first render computes autoClaims for the initial parameters
Mount == genRuns = <<>> /\ Regenerate(genParams)

SetNumClaims(n) ==
    genRuns # <<>> /\ n # genParams.n /\ Regenerate([genParams EXCEPT !.n = n])

SetSeedText(t) ==
    genRuns # <<>> /\ t # genParams.seedText /\ Regenerate([genParams EXCEPT !.seedText = t])

SetMaxPartials(k) ==
    genRuns # <<>> /\ k # genParams.maxPartials /\ Regenerate([genParams EXCEPT !.maxPartials = k])

GenNext ==
    \/ Mount
    \/ \E n \in 1 .. MaxGenClaims : SetNumClaims(n)
    \/ \E t \in GenSeedTexts : SetSeedText(t)
    \/ \E k \in PartialsTried : SetMaxPartials(k)

GenSpec == GenInit /\ [][GenNext]_vars

----------------------------------------------------------------------------
(* Cutoff specification: the window inputs, the cutoff inputs and the      *)
(* one-time initialisation of the cutoffs from the generated claims        *)

MaxCutClaims == 3          \* numClaims tried at mount

OBS_END == DateUTC(2025, 0, 1)

\* the three strings the didInitCuts effect stores.  Math.round(0.6 * n) is
\* (6 * n + 5) \div 10; the midpoint of list[k] and list[k + 1] (k counted
\* from 0) loses its half day in toISODate
initCuts(localClaims, startDate_) ==
    Only({
        IF n >= 2
        THEN Only({Only({
                 <<clampDate((list[k60 + 1] + list[k60 + 2]) \div 2, startDate_, OBS_END),
                   clampDate((list[k80 + 1] + list[k80 + 2]) \div 2, startDate_, OBS_END),
                   clampDate(OBS_END, startDate_, OBS_END)>> :
                 k80 \in {IF k80Raw <= k60 THEN Min(Max(k60 + 1, 0), n - 2) ELSE k80Raw}}) :
                 k60    \in {Min(Max(((6 * n + 5) \div 10) - 1, 0), n - 2)},
                 k80Raw \in {Min(Max(((8 * n + 5) \div 10) - 1, 0), n - 2)}})
        ELSE Only({<<addDays(startDate_, (6 * total) \div 10),
                     addDays(startDate_, (8 * total) \div 10),
                     OBS_END>> :
                   total \in {daysBetween(startDate_, OBS_END)}}) :
        list \in {sortDates([i \in DOMAIN localClaims |-> localClaims[i].notify])},
        n    \in {Len(localClaims)}})

\* the rows useMemo for the window [sStr, eStr]
rowsIn(localClaims, mode, tStr, vStr, xStr, sStr, eStr) ==
    Only({buildRows(localClaims, mode, cuts, hi) :
          cuts \in {Cutoffs(tStr, vStr, xStr, sStr, eStr)},
          hi   \in {Window(sStr, eStr)[2]}})

\* the autoClaims useMemo for the window [sStr, eStr]
autoClaimsIn(params, sStr, eStr) ==
    Only({generateClaims(params.n, lo, hi, MIN_DUR_DAYS, MAX_DUR_DAYS, params.maxPartials,
                         hashStringToSeed(params.seedText), DEDUPE_MONTHLY) :
          <<lo, hi>> \in {Window(sStr, eStr)}})

\* the dates typed into either window input: the two defaults, a date
\* between them and text that does not parse
WindowTexts == {DEFAULT_START, DateUTC(2022, 0, 1), DEFAULT_END, InvalidDate}

CutParams == [n : 1 .. MaxCutClaims, seedText : GenSeedTexts, maxPartials : {0}]

\* autoClaimsIn for every parameter record and window of this specification
AutoClaimsTable ==
    CHOOSE table \in {[params \in CutParams, sStr \in WindowTexts, eStr \in WindowTexts |->
                         autoClaimsIn(params, sStr, eStr)]} : table = table

\* the first render: generated claims, the cutoff strings of useState.
\* genRuns is the history kept for the generation specification and is
\* not recorded here
CutInit ==
    /\ startDateStr = DEFAULT_START
    /\ endDateStr = DEFAULT_END
    /\ trainCutStr = DateUTC(2021, 5, 30)
    /\ valCutStr = DateUTC(2023, 5, 30)
    /\ testCutStr = DateUTC(2025, 0, 1)
    /\ splitMode = "settlement"
    /\ didInitCuts = FALSE
    /\ selectedClaimIndex = 0
    /\ genParams \in CutParams
    /\ \E run \in {AutoClaimsTable[genParams, startDateStr, endDateStr]} :
          /\ rngState = run.a
          /\ claims = run.claims
    /\ genRuns = <<>>
    /\ rows = currentRows(claims, splitMode, trainCutStr, valCutStr, testCutStr)
    /\ AggIdle

\* the didInitCuts effect, run after the first render
InitCuts ==
    /\ ~didInitCuts
    /\ \E cuts \in {initCuts(claims, startDate)} :
          /\ trainCutStr' = cuts[1]
          /\ valCutStr' = cuts[2]
          /\ testCutStr' = cuts[3]
          /\ rows' = currentRows(claims, splitMode, cuts[1], cuts[2], cuts[3])
    /\ didInitCuts' = TRUE
    /\ UNCHANGED <<startDateStr, endDateStr, claims, splitMode, selectedClaimIndex,
                   aggVars, genVars>>

\* the start date input: the window, the generated claims and the rows
\* are recomputed
SetStartDateStr(v) ==
    /\ didInitCuts
    /\ v # startDateStr
    /\ startDateStr' = v
    /\ \E run \in {AutoClaimsTable[genParams, v, endDateStr]} :
          /\ rngState' = run.a
          /\ claims' = run.claims
          /\ rows' = rowsIn(run.claims, splitMode, trainCutStr, valCutStr, testCutStr,
                            v, endDateStr)
    /\ UNCHANGED <<endDateStr, trainCutStr, valCutStr, testCutStr, splitMode, didInitCuts,
                   selectedClaimIndex, genParams, genRuns, aggVars>>

\* the end date input
SetEndDateStr(v) ==
    /\ didInitCuts
    /\ v # endDateStr
    /\ endDateStr' = v
    /\ \E run \in {AutoClaimsTable[genParams, startDateStr, v]} :
          /\ rngState' = run.a
          /\ claims' = run.claims
          /\ rows' = rowsIn(run.claims, splitMode, trainCutStr, valCutStr, testCutStr,
                            startDateStr, v)
    /\ UNCHANGED <<startDateStr, trainCutStr, valCutStr, testCutStr, splitMode, didInitCuts,
                   selectedClaimIndex, genParams, genRuns, aggVars>>

CutNext ==
    \/ InitCuts
    \/ \E v \in WindowTexts : SetStartDateStr(v)
    \/ \E v \in WindowTexts : SetEndDateStr(v)
    \/ \E v \in CutTexts : didInitCuts /\ SetTrainCutStr(v)
    \/ \E v \in CutTexts : didInitCuts /\ SetValCutStr(v)
    \/ \E v \in CutTexts : didInitCuts /\ SetTestCutStr(v)

CutSpec == CutInit /\ [][CutNext]_vars

----------------------------------------------------------------------------
(* Properties of the aggregation and the liability calculator *)

Accepted(claim) ==
    /\ claim.missing = {}
    /\ getQuarterInfo(claim.settlement, claim.accident).developmentQuarter
         >= getQuarterInfo(claim.accident, claim.accident).developmentQuarter

DevQBase == IF oneBasedDevQuarters THEN 1 ELSE 0

Outstanding ==
    outstandingLiability(quarterlyData.quarters, quarterlyData.claimInfo, endDate,
                         priceIndexMap, midQuarterIndexMap)

Remaining ==
    remainingAdj(quarterlyData.quarters, quarterlyData.claimInfo, endDate,
                 priceIndexMap, midQuarterIndexMap)

\* C1: for an accepted claim the quarters list has exactly one record per
\* development quarter from the accident's to the settlement's development
\* quarter (as getQuarterInfo computes them, shifted by one under one-based
\* labels), in increasing order, without gaps or duplicates, zero-payment
\* quarters included.
C1_ContiguousQuarters ==
    Accepted(selectedClaim) =>
        LET a == getQuarterInfo(selectedClaim.accident, selectedClaim.accident).developmentQuarter
            e == getQuarterInfo(selectedClaim.settlement, selectedClaim.accident).developmentQuarter
            q == quarterlyData.quarters
        IN  /\ Len(q) = e - a + 1
            /\ \A i \in DOMAIN q : q[i].developmentQuarter = a + (i - 1) + DevQBase

\* a claim over several quarters, some with payments and some without
C1_Witness ==
    /\ Accepted(selectedClaim)
    /\ Len(quarterlyData.quarters) >= 3
    /\ \E i \in DOMAIN quarterlyData.quarters : quarterlyData.quarters[i].paymentCount = 0
    /\ \E i \in DOMAIN quarterlyData.quarters : quarterlyData.quarters[i].paymentCount > 0

\* C2: the nominal amounts of the quarter records add up to the claim's
\* payments: no payment is dropped or counted twice.
C2_NominalSumPreserved ==
    Accepted(selectedClaim) =>
        SumSeq([i \in DOMAIN quarterlyData.quarters |-> quarterlyData.quarters[i].nominalAmount])
          = SumSeq([i \in DOMAIN selectedClaim.payments |-> selectedClaim.payments[i].amount])

\* C3: the outstanding liability at the final development quarter is 0
\* (liability table and covariate summaries alike).
C3_FinalOutstandingZero ==
    quarterlyData.quarters # <<>> =>
        LET out == Outstanding
            rem == Remaining
        IN  /\ out[Len(out)] = 0
            /\ rem[Len(rem)] = 0

\* an inflation-adjusted claim with money still outstanding before its last quarter
C3_Witness ==
    /\ Len(quarterlyData.quarters) >= 2
    /\ ~priceIndexMap.isNull
    /\ \E i \in DOMAIN quarterlyData.quarters :
          quarterlyData.quarters[i].totalAmount # quarterlyData.quarters[i].nominalAmount
    /\ LET out == Outstanding IN out[1] > 0 /\ out[Len(out)] = 0

\* C4: the outstanding liability never increases from one development
\* quarter to a later one.
C4_OutstandingNonIncreasing ==
    quarterlyData.quarters # <<>> =>
        LET out == Outstanding
            rem == Remaining
        IN  /\ \A i, j \in DOMAIN out : i <= j => out[j] <= out[i]
            /\ \A i, j \in DOMAIN rem : i <= j => rem[j] <= rem[i]

\* payments in two different quarters: the outstanding amount drops twice
C4_Witness ==
    LET out == Outstanding
    IN  \E i, j, k \in DOMAIN out :
            /\ i < j /\ j < k
            /\ out[i] > out[j]
            /\ out[j] > out[k]

----------------------------------------------------------------------------
(* Properties of the split engine *)

\* the claims buildRows keeps: those notified before testCut
keptClaims == LET x == testCut IN SelectSeq(claims, LAMBDA c : c.notify < x)

\* the rows that are not leakage duplicates, in order
primaryRows == SelectSeq(rows, LAMBDA r : ~r.isDuplicate)

\* the duplicate rows linked to the row at position i
duplicatesOf(i) == {j \in DOMAIN rows : rows[j].isDuplicate /\ rows[j].linkFrom = i - 1}

\* C5: under the notification-date split a claim notified and settled before
\* testCut is in train if notify < trainCut, in val if trainCut <= notify <
\* valCut, in test otherwise; it is censored exactly when it settles after
\* that partition's cutoff, observedEnd is then the cutoff and otherwise the
\* settlement date.
C5_NotifySplitPlacement ==
    splitMode = "notify" =>
        LET t    == trainCut
            v    == valCut
            x    == testCut
            kept == keptClaims
        IN  /\ Len(rows) = Len(kept)
            /\ \A i \in DOMAIN rows :
                  LET c   == kept[i]
                      cut == IF c.notify < t THEN t ELSE IF c.notify < v THEN v ELSE x
                  IN  /\ rows[i].claim = c
                      /\ c.settlement < x =>
                            /\ rows[i].dataset = (IF c.notify < t THEN "train"
                                                  ELSE IF c.notify < v THEN "val" ELSE "test")
                            /\ rows[i].isCensored = (c.settlement > cut)
                            /\ rows[i].observedEnd = (IF c.settlement > cut THEN cut ELSE c.settlement)

\* notified 2021-01-01, settled 2021-08-01, trainCut 2021-06-30: train, censored at trainCut
C5_Witness ==
    /\ splitMode = "notify"
    /\ trainCut = DateUTC(2021, 5, 30)
    /\ \E i \in DOMAIN rows :
          /\ rows[i].claim.notify = DateUTC(2021, 0, 1)
          /\ rows[i].claim.settlement = DateUTC(2021, 7, 1)
          /\ rows[i].dataset = "train"
          /\ rows[i].isCensored
          /\ rows[i].observedEnd = trainCut

C7_DuplicateUpToTestCut ==
    splitMode = "notifyDup" =>
        LET t == trainCut
            v == valCut
            x == testCut
        IN  \A k \in DOMAIN claims :
               (/\ claims[k].notify >= t /\ claims[k].notify < v
                /\ claims[k].settlement > v /\ claims[k].settlement <= x) =>
                   \E j \in DOMAIN rows :
                      /\ rows[j].claim = claims[k]
                      /\ rows[j].isDuplicate
                      /\ rows[j].dataset = "test"
                      /\ ~rows[j].isCensored
                      /\ rows[j].leakUntil = v

\* C7 (amended): in leakage-duplication mode a claim whose row is in val has
\* exactly one additional row, placed in test right below it, with
\* isDuplicate = true, isCensored = false and leakUntil = valCut, if and only
\* if its settlement lies strictly between valCut and testCut, i.e. iff it is
\* censored in val; a claim settled on or after testCut has a single post
\* row and no duplicate.
C7_ValToTestDuplicate ==
    splitMode = "notifyDup" =>
        LET v == valCut
            x == testCut
        IN  \A i \in DOMAIN rows :
              /\ (rows[i].dataset = "val" /\ ~rows[i].isDuplicate) =>
                    /\ rows[i].isCensored = (rows[i].claim.settlement > v /\ rows[i].claim.settlement < x)
                    /\ IF rows[i].isCensored
                       THEN /\ duplicatesOf(i) = {i + 1}
                            /\ rows[i + 1].claim = rows[i].claim
                            /\ rows[i + 1].dataset = "test"
                            /\ ~rows[i + 1].isCensored
                            /\ rows[i + 1].leakUntil = v
                       ELSE duplicatesOf(i) = {}
              /\ rows[i].claim.settlement >= x =>
                    /\ rows[i].dataset = "post"
                    /\ ~rows[i].isDuplicate
                    /\ duplicatesOf(i) = {}

\* a censored val claim with its test duplicate, and a claim notified in
\* [trainCut, valCut) settled exactly on testCut: post, no duplicate
C7_Witness ==
    /\ splitMode = "notifyDup"
    /\ \E i \in DOMAIN rows :
          /\ rows[i].dataset = "val" /\ rows[i].isCensored
          /\ duplicatesOf(i) = {i + 1}
    /\ \E i \in DOMAIN rows :
          /\ rows[i].claim.notify >= trainCut /\ rows[i].claim.notify < valCut
          /\ rows[i].claim.settlement = testCut
          /\ rows[i].dataset = "post"
          /\ duplicatesOf(i) = {}

C9_LateClaimsArePost ==
    splitMode = "notify" =>
        LET x == testCut
        IN  \A k \in DOMAIN claims :
               claims[k].settlement >= x =>
                   \E j \in DOMAIN rows : rows[j].claim = claims[k] /\ rows[j].dataset = "post"

----------------------------------------------------------------------------
(* Properties of the claim generator *)

DrawOrderIs(accidentAt, notifyAt) ==
    \A r \in DOMAIN genRuns :
        LET p      == genRuns[r].params
            result == genRuns[r].claims
            \* the next n values of rand(), appended to st.out (run as two halves)
            RECURSIVE streamFrom(_, _)
            streamFrom(st, n) ==
                IF n = 0 THEN st
                ELSE IF n = 1
                THEN Only({[a |-> x.a, out |-> Append(st.out, x.v)] : x \in {mulberry32(st.a)}})
                ELSE Only({streamFrom(half, n - (n \div 2)) : half \in {streamFrom(st, n \div 2)}})
            vs == streamFrom([a |-> randFresh(hashStringToSeed(p.seedText)), out |-> <<>>],
                             p.n * (7 + 2 * p.maxPartials)).out
            latestNotify == Max(0, Max(1, daysBetween(DEFAULT_START, DEFAULT_END)) - MIN_DUR_DAYS)
            offsetOf(pos) == 7 + floorMul(vs[pos + accidentAt], 54)
            notifyOf(pos) == addDays(DEFAULT_START, floorMul(vs[pos + notifyAt], latestNotify))
            settlementOf(pos) ==
                Min(DEFAULT_END,
                    addDays(notifyOf(pos),
                            MIN_DUR_DAYS + floorMul(vs[pos + 3], MAX_DUR_DAYS - MIN_DUR_DAYS + 1)))
            countOf(pos) ==
                IF daysBetween(notifyOf(pos), settlementOf(pos)) < 2 THEN 0
                ELSE floorMul(vs[pos + 4], p.maxPartials + 1)
            drawnOf(pos) ==
                [j \in 1 .. countOf(pos) |->
                    [date   |-> addDays(notifyOf(pos),
                                        floorMul(vs[pos + 3 + 2 * j],
                                                 Max(1, daysBetween(notifyOf(pos), settlementOf(pos))))),
                     amount |-> 1 + floorMul(vs[pos + 4 + 2 * j], 9)]]
            paymentsOf(pos) ==
                dedupePayments(
                    sortByDate(SelectSeq(drawnOf(pos),
                                         LAMBDA x : x.date > notifyOf(pos)
                                                    /\ x.date <= settlementOf(pos))),
                    <<>>)
            covariatesAt(pos) == pos + 4 + 2 * countOf(pos)
            RECURSIVE posOf(_)
            posOf(i) == IF i = 0 THEN 0 ELSE covariatesAt(posOf(i - 1)) + 3
        IN  /\ Len(result) = p.n
            /\ \A i \in 0 .. p.n - 1 :
                  \E c \in DOMAIN result :
                      LET pos == posOf(i)
                      IN  /\ result[c].staticCovariates.claimId = claimIdOf(i)
                          /\ result[c].notify = notifyOf(pos)
                          /\ result[c].accident = addDays(notifyOf(pos), 0 - offsetOf(pos))
                          /\ result[c].settlement = settlementOf(pos)
                          /\ result[c].payments = paymentsOf(pos)
                          /\ result[c].staticCovariates.postcode
                               = POSTCODES[1 + floorMul(vs[covariatesAt(pos) + 1], Len(POSTCODES))]
                          /\ result[c].staticCovariates.claimType
                               = CLAIM_TYPES[1 + floorMul(vs[covariatesAt(pos) + 2], Len(CLAIM_TYPES))]
                          /\ result[c].staticCovariates.region
                               = REGIONS[1 + floorMul(vs[covariatesAt(pos) + 3], Len(REGIONS))]

C12_OneBasedOnlyRelabels ==
    LET on  == Aggregated(selectedClaim, TRUE, endDate, priceIndexMap).quarters
        off == Aggregated(selectedClaim, FALSE, endDate, priceIndexMap).quarters
    IN  /\ quarterlyData.quarters = (IF oneBasedDevQuarters THEN on ELSE off)
        /\ Len(on) = Len(off)
        /\ \A i \in DOMAIN off :
              /\ on[i].quarterKey = off[i].quarterKey
              /\ on[i].nominalAmount = off[i].nominalAmount
              /\ on[i].totalAmount = off[i].totalAmount
              /\ on[i].paymentCount = off[i].paymentCount
              /\ on[i].payments = off[i].payments
              /\ on[i].developmentQuarter = off[i].developmentQuarter + 1

\* C12 witness: the flag is set on an inflation-adjusted claim that has both a
\* quarter with payments and a quarter without
C12_Witness ==
    /\ oneBasedDevQuarters
    /\ priceIndexMap # NoMap
    /\ \E i, j \in DOMAIN quarterlyData.quarters :
          /\ quarterlyData.quarters[i].paymentCount > 0
          /\ quarterlyData.quarters[i].totalAmount # quarterlyData.quarters[i].nominalAmount
          /\ quarterlyData.quarters[j].paymentCount = 0
          /\ quarterlyData.quarters[1].developmentQuarter = 1

----------------------------------------------------------------------------
(* Properties of the training rows (DevelopmentPeriodGeneration) *)

TrainingRows ==
    trainingRows(quarterlyData.claimInfo, quarterlyData.quarters, endDate,
                 oneBasedDevQuarters, priceIndexMap, midQuarterIndexMap)

\* the training rows of the same claim under the given setting of the flag
TrainingRowsWith(oneBased) ==
    LET data == Aggregated(selectedClaim, oneBased, endDate, priceIndexMap)
    IN  trainingRows(data.claimInfo, data.quarters, endDate, oneBased,
                     priceIndexMap, midQuarterIndexMap)

\* Outstanding(k) = max(0, Ultimate - CumulativeToDate(k)), where
\* CumulativeToDate(k) adds the adjusted amounts of the records of the
\* development quarters up to and including k (counted from the accident
\* quarter = 0, whatever the labels)
OutstandingAt(k) ==
    LET q        == quarterlyData.quarters
        adjusted == adjustedThisQuarter(q, quarterlyData.claimInfo, endDate,
                                        priceIndexMap, midQuarterIndexMap)
        upToK    == [j \in DOMAIN q |->
                        IF q[j].developmentQuarter - DevQBase <= k THEN adjusted[j] ELSE 0]
    IN  Max(0, SumSeq(adjusted) - SumSeq(upToK))

\* C13: for every training row emitted for development quarter k the target
\* equals Outstanding(k) = max(0, Ultimate - CumulativeToDate(k)), where
\* CumulativeToDate(k) sums the adjusted amounts of exactly the quarters from
\* the accident quarter up to and including k; the target and the zero-target
\* flag of a row are the same whether the one-based flag is on or off.
C13_TargetIsOutstanding ==
    endDate # NoDate =>
        LET on   == TrainingRowsWith(TRUE)
            off  == TrainingRowsWith(FALSE)
        IN  /\ \A n \in DOMAIN TrainingRows :
                  TrainingRows[n].outstandingLiability
                    = OutstandingAt(TrainingRows[n].currentQuarter)
            /\ Len(on) = Len(off)
            /\ \A n \in DOMAIN off :
                  /\ on[n].outstandingLiability = off[n].outstandingLiability
                  /\ on[n].isZeroTarget = off[n].isZeroTarget

\* C13, zero-based labels only: the target of the row of quarter k is
\* Outstanding(k)
C13_ZeroBasedTarget ==
    (endDate # NoDate /\ ~oneBasedDevQuarters) =>
        \A n \in DOMAIN TrainingRows :
            TrainingRows[n].outstandingLiability = OutstandingAt(TrainingRows[n].currentQuarter)

\* C13, one-based labels: the target of the row of quarter k is
\* Outstanding(k - 1): the amount of quarter k itself is still outstanding
C13_OneBasedTargetLags ==
    (endDate # NoDate /\ oneBasedDevQuarters) =>
        \A n \in DOMAIN TrainingRows :
            TrainingRows[n].outstandingLiability = OutstandingAt(TrainingRows[n].currentQuarter - 1)

\* the row count the claim C14 states, from the claim's own dates
ExpectedRowQuarters ==
    LET notifyDevQ      == getQuarterInfo(selectedClaim.notify, selectedClaim.accident).developmentQuarter
        settlementDevQ  == getQuarterInfo(selectedClaim.settlement, selectedClaim.accident).developmentQuarter
        observationDevQ == getQuarterInfo(endDate, selectedClaim.accident).developmentQuarter
    IN  [n \in 1 .. Max(0, Min(settlementDevQ, observationDevQ) - notifyDevQ + 1) |->
            notifyDevQ + n - 1]

\* C14 for DevelopmentPeriodGeneration: the rows are exactly the development
\* quarters k with notifyDevQ <= k <= min(settlementDevQ, observationDevQ),
\* max(0, min(settlementDevQ, observationDevQ) - notifyDevQ + 1) of them, and
\* none when the notification quarter is after the observation quarter.
C14_ComponentRowCount ==
    (endDate # NoDate /\ Accepted(selectedClaim)) =>
        /\ Len(TrainingRows) = Len(ExpectedRowQuarters)
        /\ \A n \in DOMAIN TrainingRows :
              TrainingRows[n].currentQuarter = ExpectedRowQuarters[n]
        /\ (getQuarterInfo(selectedClaim.notify, selectedClaim.accident).developmentQuarter
              > getQuarterInfo(endDate, selectedClaim.accident).developmentQuarter
            => TrainingRows = <<>>)

\* C14: the number of training rows emitted for a claim is exactly
\* max(0, min(settlementDevQ, observationDevQ) - notifyDevQ + 1), in every
\* view that emits training rows: DevelopmentPeriodGeneration and the older
\* inline view alike.
C14_RowCount ==
    (endDate # NoDate /\ Accepted(selectedClaim)) =>
        /\ Len(TrainingRows) = Len(ExpectedRowQuarters)
        /\ numRows(quarterlyData.claimInfo) = Len(ExpectedRowQuarters)

\* the development quarters (counted from the accident quarter) in which the
\* selected claim has at least one payment
PaidDevQuarters ==
    {getQuarterInfo(selectedClaim.payments[i].date, selectedClaim.accident).developmentQuarter :
        i \in DOMAIN selectedClaim.payments}

\* C15: the record of a development quarter without any payment has
\* nominalAmount = 0, paymentCount = 0 and totalAmount = 0, whatever the
\* adjustment factor, price index entries missing or not.
C15_EmptyQuarterIsZero ==
    \A i \in DOMAIN quarterlyData.quarters :
        LET q == quarterlyData.quarters[i]
        IN  (q.developmentQuarter - DevQBase) \notin PaidDevQuarters =>
                /\ q.nominalAmount = 0
                /\ q.paymentCount = 0
                /\ q.totalAmount = 0
                /\ q.payments = <<>>

\* C15 witness: inflation adjustment is on with a price index, the claim has
\* a paid quarter, and an unpaid quarter whose calendar quarter has no price
\* index entry
C15_Witness ==
    /\ endDate # NoDate
    /\ priceIndexMap # NoMap
    /\ \E i, j \in DOMAIN quarterlyData.quarters :
          /\ (quarterlyData.quarters[i].developmentQuarter - DevQBase) \notin PaidDevQuarters
          /\ quarterlyData.quarters[i].inflationAdjusted
          /\ quarterlyData.quarters[i].quarterKey \notin DOMAIN priceIndexMap.map
          /\ quarterlyData.quarters[j].paymentCount > 0

\* the number of calendar quarters from the accident's quarter to the
\* settlement's quarter, unclamped
QuarterSpan(claim) ==
    LET a == CivilFromDays(claim.accident)
        e == CivilFromDays(claim.settlement)
    IN  (e.y - a.y) * 4 + ((e.m0 \div 3) - (a.m0 \div 3))

\* C16: a claim whose development-quarter span (settlement quarter minus
\* accident quarter) exceeds 100 quarters yields the same empty result as a
\* malformed claim: quarters = [].
C16_LongSpanRejected ==
    (selectedClaim.missing = {} /\ QuarterSpan(selectedClaim) > DEVQ_SPAN_LIMIT)
        => quarterlyData.quarters = <<>>

\* C16, what happens instead: a claim that spans more than 100 quarters gets
\* one record for each of the development quarters 0 .. 50
C16_LongSpanClamped ==
    (selectedClaim.missing = {} /\ QuarterSpan(selectedClaim) > DEVQ_SPAN_LIMIT)
        => /\ Len(quarterlyData.quarters) = DEVQ_CLAMP + 1
           /\ \A i \in DOMAIN quarterlyData.quarters :
                 quarterlyData.quarters[i].developmentQuarter = i - 1 + DevQBase

\* a claim of more than 100 quarters is aggregated
C16_LongSpanSeen ==
    /\ selectedClaim.missing = {}
    /\ QuarterSpan(selectedClaim) > DEVQ_SPAN_LIMIT
    /\ selectedClaim.payments # <<>>

\* the claim is malformed: null, a required field missing, or settled in a
\* calendar quarter before the accident's
Malformed(claim) ==
    \/ claim.missing # {}
    \/ QuarterSpan(claim) < 0

\* C17: for any malformed claim (null claim, accident, notify, settlement,
\* staticCovariates or payments missing, or settlement quarter before the
\* accident quarter) aggregateClaimToQuarters returns a result with an empty
\* quarters list; it returns a result, with claimInfo, in every case.
C17_MalformedYieldsEmpty ==
    /\ DOMAIN quarterlyData = {"claimInfo", "quarters"}
    /\ Malformed(selectedClaim) => quarterlyData.quarters = <<>>
    /\ selectedClaim.missing # {} => quarterlyData.claimInfo.claimId = "INVALID"

\* C17 witness: a claim without staticCovariates, and (second) a claim with a
\* payment that is settled before its accident quarter, were aggregated with
\* an observation end date and a price index
C17_Witness ==
    /\ endDate # NoDate
    /\ priceIndexMap # NoMap
    /\ \/ selectedClaim.missing = {"staticCovariates"}
       \/ (selectedClaim.missing = {} /\ QuarterSpan(selectedClaim) < 0
             /\ selectedClaim.payments # <<>>)

\* C18: when inflation adjustment is requested and the price index has no
\* entry for the target quarter or for a record's source quarter, the factor
\* is 1.0 and totalAmount = nominalAmount; otherwise the factor is
\* priceIndex[targetQuarterKey] / midIndex[sourceQuarterKey], with
\* midIndex[q] = sqrt(priceIndex[q - 1] * priceIndex[q]) (priceIndex[q] for
\* the first quarter of the index); nominalAmount is the sum of the quarter's
\* payments and totalAmount = nominalAmount * factor.
C18_AdjustmentFactor ==
    endDate # NoDate =>
        \A i \in DOMAIN quarterlyData.quarters :
            LET q        == quarterlyData.quarters[i]
                pim      == priceIndexMap
                target   == getQuarterInfo(endDate, selectedClaim.accident).quarterKey
                source   == q.quarterKey
                prev     == prevQuarterKey(source)
                midIndex == IF prev \in DOMAIN pim.map
                            THEN sqrt(mul16(pim.map[prev], pim.map[source]))
                            ELSE pim.map[source]
            IN  /\ q.inflationAdjusted
                /\ q.nominalAmount = SumSeq([n \in DOMAIN q.payments |-> q.payments[n].amount])
                /\ q.totalAmount =
                      IF pim.isNull \/ target \notin DOMAIN pim.map \/ source \notin DOMAIN pim.map
                      THEN q.nominalAmount
                      ELSE (q.nominalAmount * pim.map[target]) \div midIndex

\* C18 witness: adjustment is requested with a price index that has no entry
\* for the quarter of a paid record
C18_Witness ==
    /\ endDate # NoDate
    /\ priceIndexMap # NoMap
    /\ \E i \in DOMAIN quarterlyData.quarters :
          /\ quarterlyData.quarters[i].paymentCount > 0
          /\ quarterlyData.quarters[i].quarterKey \notin DOMAIN priceIndexMap.map
          /\ quarterlyData.quarters[i].totalAmount = quarterlyData.quarters[i].nominalAmount

\* C18, the other case: a paid record is adjusted by a factor other than 1
C18_AdjustedSeen ==
    /\ endDate # NoDate
    /\ priceIndexMap # NoMap
    /\ \E i \in DOMAIN quarterlyData.quarters :
          /\ quarterlyData.quarters[i].paymentCount > 0
          /\ quarterlyData.quarters[i].quarterKey \in DOMAIN priceIndexMap.map
          /\ quarterlyData.quarters[i].totalAmount > quarterlyData.quarters[i].nominalAmount

----------------------------------------------------------------------------
(* Properties of the generated claims *)

\* C19: every generated claim satisfies accident <= notify <= settlement <=
\* window end; its payment dates lie in (notify, settlement]; its payments
\* are in ascending date order; every amount is positive; and it has at most
\* maxPartials payments.
C19_GeneratedClaimsWellFormed ==
    \A r \in DOMAIN genRuns :
        \A i \in DOMAIN genRuns[r].claims :
            LET c == genRuns[r].claims[i]
            IN  /\ c.accident <= c.notify
                /\ c.notify <= c.settlement
                /\ c.settlement <= DEFAULT_END
                /\ \A j \in DOMAIN c.payments :
                      /\ c.notify < c.payments[j].date
                      /\ c.payments[j].date <= c.settlement
                      /\ c.payments[j].amount > 0
                /\ \A j \in 1 .. Len(c.payments) - 1 :
                      c.payments[j].date <= c.payments[j + 1].date
                /\ Len(c.payments) <= genRuns[r].params.maxPartials

\* C19 witness: a run produced a claim with several payments, and a claim
\* whose settlement was clamped to the window end
C19_Witness ==
    \E r \in DOMAIN genRuns :
        /\ \E i \in DOMAIN genRuns[r].claims : Len(genRuns[r].claims[i].payments) >= 3
        /\ \E i \in DOMAIN genRuns[r].claims : genRuns[r].claims[i].settlement = DEFAULT_END

\* the claims of run r as generated without the monthly dedupe: the same
\* draws, the payments filtered and sorted only
UndedupedClaims(r) ==
    generateClaims(genRuns[r].params.n, DEFAULT_START, DEFAULT_END, MIN_DUR_DAYS, MAX_DUR_DAYS,
                   genRuns[r].params.maxPartials, hashStringToSeed(genRuns[r].params.seedText),
                   FALSE).claims

\* kept is the monthly dedupe of all: one payment per month, dated as the
\* earliest payment of the month, with the amounts of the month added up
IsMonthlyDedupe(kept, all) ==
    /\ \A j, l \in DOMAIN kept :
          monthKeyUTC(kept[j].date) = monthKeyUTC(kept[l].date) => j = l
    /\ {monthKeyUTC(kept[j].date) : j \in DOMAIN kept}
          = {monthKeyUTC(all[j].date) : j \in DOMAIN all}
    /\ \A j \in DOMAIN kept :
          LET month == {l \in DOMAIN all : monthKeyUTC(all[l].date) = monthKeyUTC(kept[j].date)}
          IN  /\ \A l \in month : kept[j].date <= all[l].date
              /\ \E l \in month : kept[j].date = all[l].date
              /\ kept[j].amount
                    = SumSeq([l \in DOMAIN all |-> IF l \in month THEN all[l].amount ELSE 0])
    /\ SumSeq([j \in DOMAIN kept |-> kept[j].amount])
          = SumSeq([l \in DOMAIN all |-> all[l].amount])

\* C25: with the monthly dedupe on, a generated claim has at most one
\* payment per calendar month (UTC); the payment kept for a month has the
\* earliest payment date of the month and the sum of the amounts paid in
\* that month, so the total paid is unchanged
C25_MonthlyDedupe ==
    \A r \in DOMAIN genRuns :
        LET all == UndedupedClaims(r)
        IN  /\ Len(all) = Len(genRuns[r].claims)
            /\ \A i \in DOMAIN genRuns[r].claims :
                  IsMonthlyDedupe(genRuns[r].claims[i].payments, all[i].payments)

\* a run produced a claim in which payments of one month were merged and a
\* payment of another month was kept
C25_Witness ==
    \E r \in DOMAIN genRuns :
        \E i \in DOMAIN genRuns[r].claims :
            /\ Len(genRuns[r].claims[i].payments) >= 2
            /\ Len(UndedupedClaims(r)[i].payments) > Len(genRuns[r].claims[i].payments)
            /\ IsMonthlyDedupe(genRuns[r].claims[i].payments, UndedupedClaims(r)[i].payments)

----------------------------------------------------------------------------
(* Properties of the window and the cutoffs *)

\* C20: whatever is typed into the window inputs and the three cutoff
\* inputs (unparsable, out-of-window and out-of-order text included), and
\* after the cutoffs were initialised from the data, the derived dates are
\* ordered: windowStart <= trainCut <= valCut <= testCut <= windowEnd
C20_CutoffsOrdered ==
    /\ startDate <= trainCut
    /\ trainCut <= valCut
    /\ valCut <= testCut
    /\ testCut <= windowEnd

\* after the data-driven initialisation (two claims or more) the window
\* was shortened to end in 2022, the train cutoff was typed after the
\* validation cutoff and after the window end, and the test cutoff does
\* not parse
C20_Witness ==
    /\ didInitCuts
    /\ Len(claims) >= 2
    /\ endDateStr = DateUTC(2022, 0, 1)
    /\ trainCutStr = DateUTC(2025, 0, 1)
    /\ valCutStr = DateUTC(2021, 5, 30)
    /\ testCutStr = InvalidDate
    /\ C20_CutoffsOrdered

\* the same with three parsable cutoffs, typed in descending order
C20_OutOfOrderSeen ==
    /\ didInitCuts
    /\ startDateStr = DateUTC(2022, 0, 1)
    /\ trainCutStr = DateUTC(2025, 0, 1)
    /\ valCutStr = DateUTC(2023, 5, 30)
    /\ testCutStr = DateUTC(2021, 5, 30)
    /\ trainCut = DateUTC(2022, 0, 1)
    /\ valCut = DateUTC(2023, 5, 30)
    /\ testCut = DateUTC(2025, 0, 1)
----------------------------------------------------------------------------
(* Properties of the price index *)

\* quarters counted from year 0, and a <= b on words of two 16-bit halves
QuarterNumber(k) == 4 * k[1] + k[2]
WordLeq(a, b) == (a.hi < b.hi) \/ ((a.hi = b.hi) /\ (a.lo <= b.lo))

\* mid is the square root of prev * eoq on the fixed-point grid
IsGeometricMean(mid, prev, eoq) ==
    /\ WordLeq(mul16(mid, mid), mul16(prev, eoq))
    /\ ~WordLeq(mul16(mid + 1, mid + 1), mul16(prev, eoq))

\* C21: for every quarter of the generated price index that has its
\* predecessor quarter in the series, midIndex squared is eoq[q-1] * eoq[q]
\* (the geometric mean, on the fixed-point grid); for the first quarter of
\* the series midIndex is that quarter's own end-of-quarter value
C21_MidIndexIsGeometricMean ==
    ~priceIndexMap.isNull =>
        /\ ~midQuarterIndexMap.isNull
        /\ DOMAIN midQuarterIndexMap.map = DOMAIN priceIndexMap.map
        /\ \A k \in DOMAIN priceIndexMap.map :
              LET before == {p \in DOMAIN priceIndexMap.map : QuarterNumber(p) = QuarterNumber(k) - 1}
              IN  IF before = {}
                  THEN midQuarterIndexMap.map[k] = priceIndexMap.map[k]
                  ELSE \A p \in before :
                         IsGeometricMean(midQuarterIndexMap.map[k], priceIndexMap.map[p],
                                         priceIndexMap.map[k])

\* an index of several years is shown: the first quarter of a year takes the
\* last quarter of the year before, and the mid value lies strictly between
\* the two end-of-quarter values
C21_Witness ==
    /\ ~priceIndexMap.isNull
    /\ C21_MidIndexIsGeometricMean
    /\ \E k \in DOMAIN priceIndexMap.map :
          /\ k[2] = 1
          /\ prevQuarterKey(k) \in DOMAIN priceIndexMap.map
          /\ priceIndexMap.map[prevQuarterKey(k)] < midQuarterIndexMap.map[k]
          /\ midQuarterIndexMap.map[k] < priceIndexMap.map[k]
    /\ \E k \in DOMAIN priceIndexMap.map :
          /\ prevQuarterKey(k) \notin DOMAIN priceIndexMap.map
          /\ midQuarterIndexMap.map[k] = priceIndexMap.map[k]
----------------------------------------------------------------------------
(* Properties of the claims generated for the window of the diagram *)

DurationWithinBounds(c) ==
    /\ startDate <= c.notify
    /\ c.notify <= windowEnd - MIN_DUR_DAYS
    /\ daysBetween(c.notify, c.settlement) >= MIN_DUR_DAYS
    /\ daysBetween(c.notify, c.settlement) <= MAX_DUR_DAYS

C22_ShortWindowSeen ==
    /\ didInitCuts
    /\ startDate = windowEnd
    /\ claims # <<>>
    /\ \A i \in DOMAIN claims : claims[i].settlement = claims[i].notify
----------------------------------------------------------------------------
(* Properties of the generated price index series *)

\* the quarters of the window of the index, as quarter numbers
IndexQuarters ==
    QuarterNumber(quarterKeyFromUTC(WindowStart)) .. QuarterNumber(quarterKeyFromUTC(endDate))

\* next is max(60, prev * (1 + drift + noise)) for some drift in
\* [0.013, 0.019] and noise in [-0.004, 0.004], on the fixed-point grid
IsIndexStep(prev, next) ==
    /\ next >= Max(60 * IDX_UNIT, (prev * (RATE_UNIT + 130 - 40)) \div RATE_UNIT)
    /\ next <= Max(60 * IDX_UNIT, (prev * (RATE_UNIT + 190 + 40)) \div RATE_UNIT)

\* one entry per calendar quarter of the window, each after the first a
\* step from the entry before it
IndexSeriesSteps ==
    /\ {QuarterNumber(k) : k \in DOMAIN priceIndexMap.map} = IndexQuarters
    /\ \A k \in DOMAIN priceIndexMap.map :
          prevQuarterKey(k) \in DOMAIN priceIndexMap.map =>
              IsIndexStep(priceIndexMap.map[prevQuarterKey(k)], priceIndexMap.map[k])

FirstIndex == priceIndexMap.map[quarterKeyFromUTC(WindowStart)]

\* C23: the generated price index has exactly one entry per calendar
\* quarter from the quarter of the window start to the quarter of the
\* window end; the first entry is 100 and each later entry is
\* max(60, previous * (1 + drift + noise))
C23_IndexStartsAt100 ==
    ~priceIndexMap.isNull => (IndexSeriesSteps /\ FirstIndex = 100 * IDX_UNIT)

\* what the generator does instead: the first entry is already one step
\* away from 100
C23_IndexStartsOneStepFrom100 ==
    ~priceIndexMap.isNull => (IndexSeriesSteps /\ IsIndexStep(100 * IDX_UNIT, FirstIndex))

C23_IndexSeen ==
    /\ ~priceIndexMap.isNull
    /\ endDate = DateUTC(2034, 0, 1)
    /\ FirstIndex > 100 * IDX_UNIT
----------------------------------------------------------------------------
(* Properties of the summary statistics *)

\* the sample standard deviation of a sequence of fixed-point values: the
\* squared deviations from the mean over n - 1, and 0 for n <= 1
SampleSd(values) ==
    LET n    == Len(values)
        mean == IF n > 0 THEN SumSeq(values) \div n ELSE 0
    IN  IF n > 1
        THEN sqrtOf(SumSeq([i \in DOMAIN values |-> (values[i] - mean) * (values[i] - mean)])
                        \div (n - 1))
        ELSE 0

\* the adjusted increments of the summaries view, and those of the neural
\* network view up to its cutoff
SummaryIncrements ==
    adjustedIncrements(quarterlyData.quarters, quarterlyData.claimInfo, endDate,
                       priceIndexMap, midQuarterIndexMap)
NetworkIncrements ==
    LET kept == incUpToCutoff(quarterlyData.quarters,
                              adjustedThisQuarter(quarterlyData.quarters, quarterlyData.claimInfo,
                                                  endDate, priceIndexMap, midQuarterIndexMap))
    IN  [i \in DOMAIN kept |-> kept[i].v]
NetworkSd ==
    incStats(quarterlyData.quarters,
             adjustedThisQuarter(quarterlyData.quarters, quarterlyData.claimInfo, endDate,
                                 priceIndexMap, midQuarterIndexMap)).sd

\* the summaries view divides by n - 1, for every position of its cutoff
C24_SummariesUseSampleSd ==
    quarterlyData.quarters # <<>> =>
        LET inc == SummaryIncrements
        IN  \A endIdx \in 0 .. (Len(inc) - 1) :
                statsUpTo(inc, endIdx).sd = SampleSd(SubSeq(inc, 1, endIdx + 1))

\* C24: wherever the standard deviation of the adjusted increments up to
\* the cutoff quarter is computed as a feature, it is the sample standard
\* deviation (n - 1 in the denominator when n > 1, else 0): in the
\* summaries view and in the neural network view
C24_SampleStandardDeviation ==
    quarterlyData.quarters # <<>> =>
        /\ C24_SummariesUseSampleSd
        /\ NetworkSd = SampleSd(NetworkIncrements)

\* the neural network view divides by n
C24_NetworkUsesPopulationSd ==
    /\ Len(NetworkIncrements) > 1
    /\ NetworkSd # SampleSd(NetworkIncrements)
    /\ NetworkSd * NetworkSd * Len(NetworkIncrements)
          <= SampleSd(NetworkIncrements) * SampleSd(NetworkIncrements)
                * (Len(NetworkIncrements) - 1)
----------------------------------------------------------------------------
(* Properties of the claim selection *)

RowIndexes == 0 .. (2 * MaxClaims - 1)

\* C26: after a click on the claim line at row position idx, the claim
\* selected for the preprocessing sections is the claim drawn on that row,
\* rows[idx].claim, and the selected index refers to an existing claim
C26_ClickSelectsRowClaim ==
    [][\A idx \in RowIndexes :
          SelectRow(idx) =>
              /\ selectedClaimIndex' + 1 \in DOMAIN claims'
              /\ selectedClaimAt(claims', selectedClaimIndex') = rows'[idx + 1].claim]_vars

\* what the click does: it selects the claim at position idx of the claim
\* list, whatever the row shows
C26_ClickSelectsListPosition ==
    [][\A idx \in RowIndexes :
          SelectRow(idx) =>
              selectedClaimAt(claims', selectedClaimIndex') = selectedClaimAt(claims, idx)]_vars

\* a row past the end of the claim list was clicked: no claim is selected
C26_SelectionPastListSeen ==
    /\ selectedClaimIndex < Len(rows)
    /\ selectedClaimIndex >= Len(claims)
    /\ selectedClaimAt(claims, selectedClaimIndex) = NoClaim

\* the clicked row shows another claim than the one selected
C26_OtherClaimSelectedSeen ==
    /\ selectedClaimIndex < Len(rows)
    /\ selectedClaimIndex < Len(claims)
    /\ selectedClaimAt(claims, selectedClaimIndex) # rows[selectedClaimIndex + 1].claim
----------------------------------------------------------------------------
(* Properties of the calendar labels of the quarter records *)

\* the record rec is labelled with the calendar quarter that lies as many
\* quarters after the accident quarter as its development quarter says
\* (counted from 0)
LabelledByDevelopmentQuarter(rec) ==
    /\ rec.quarterKey = QuarterKey(rec.calendarYear, rec.calendarQuarter)
    /\ rec.calendarQuarter \in 1 .. 4
    /\ QuarterNumber(rec.quarterKey)
          = QuarterNumber(quarterKeyFromUTC(quarterlyData.claimInfo.accidentDate))
              + (rec.developmentQuarter - DevQBase)

\* C27: every quarter record, the records without payments included,
\* carries the calendar year, calendar quarter and quarter key of the
\* quarter that lies developmentQuarter quarters after the accident
\* quarter, whatever the day of the month of the accident
C27_CalendarLabels ==
    \A i \in DOMAIN quarterlyData.quarters :
        LabelledByDevelopmentQuarter(quarterlyData.quarters[i])

\* the records with payments are labelled that way as long as the
\* development quarter is below the clamp of getQuarterInfo
C27_PaidRecordsLabelled ==
    \A i \in DOMAIN quarterlyData.quarters :
        LET rec == quarterlyData.quarters[i]
        IN  (rec.paymentCount > 0 /\ rec.developmentQuarter - DevQBase < DEVQ_CLAMP)
                => LabelledByDevelopmentQuarter(rec)
\* the claim with the accident on 2020-03-31: its records without payments
\* for the development quarters 1 and 2 carry the labels of 2020Q3 and
\* 2020Q4, one quarter late
C27_MonthEndMislabelledSeen ==
    /\ tzBehind = 0
    /\ selectedClaim.missing = {}
    /\ selectedClaim.accident = DateUTC(2020, 2, 31)
    /\ selectedClaim.payments = <<>>
    /\ Len(quarterlyData.quarters) = 4
    /\ quarterlyData.quarters[2].developmentQuarter = 1 + DevQBase
    /\ quarterlyData.quarters[2].quarterKey = QuarterKey(2020, 3)
    /\ quarterlyData.quarters[3].quarterKey = QuarterKey(2020, 4)
    /\ quarterlyData.quarters[4].quarterKey = QuarterKey(2020, 4)
----------------------------------------------------------------------------
(* Properties of the row list of the leakage-duplication mode *)

\* the row at position i (from 1) is a duplicate linked to the row before it
IsLinkedDuplicate(i) ==
    /\ i > 1
    /\ rows[i].isDuplicate
    /\ rows[i].linkFrom = i - 2
    /\ ~rows[i - 1].isDuplicate
    /\ rows[i - 1].isCensored
    /\ rows[i - 1].hasDuplicate
    /\ rows[i - 1].claim = rows[i].claim
    /\ rows[i - 1].cutoff = rows[i].leakUntil

\* C28: in the row list of the leakage-duplication mode every duplicate row
\* sits immediately after the row at index linkFrom, a non-duplicate,
\* censored row of the same claim with hasDuplicate and with the
\* duplicate's leakUntil as cutoff; a row has hasDuplicate only if exactly
\* one such duplicate follows it; no claim has more than two rows
C28_DuplicateLinks ==
    splitMode = "notifyDup" =>
        /\ \A i \in DOMAIN rows : rows[i].isDuplicate => IsLinkedDuplicate(i)
        /\ \A i \in DOMAIN rows :
              rows[i].hasDuplicate =>
                  /\ i + 1 \in DOMAIN rows
                  /\ IsLinkedDuplicate(i + 1)
                  /\ \A j \in DOMAIN rows : (rows[j].isDuplicate /\ rows[j].linkFrom = i - 1) => j = i + 1
        /\ Cardinality({i \in DOMAIN rows : ~rows[i].isDuplicate}) <= Len(claims)
        /\ Len(rows) <= 2 * Len(claims)

\* a row list with a TRAIN -> VAL duplicate followed by a VAL -> TEST
\* duplicate
C28_Witness ==
    /\ splitMode = "notifyDup"
    /\ Len(rows) = 4
    /\ IsLinkedDuplicate(2) /\ rows[2].dataset = "val" /\ rows[2].leakUntil = trainCut
    /\ IsLinkedDuplicate(4) /\ rows[4].dataset = "test" /\ rows[4].leakUntil = valCut
    /\ rows[4].linkFrom = 2
\* the row list of the plain notification-date split for the same claims
\* and cutoffs
PlainNotifyRows == currentRows(claims, "notify", trainCutStr, valCutStr, testCutStr)

\* C29: the leakage-duplication row list without its duplicate rows is the
\* row list of the plain notification-date split: one row per claim with
\* notify < testCut, in claim order, with the same dataset, cutoff,
\* isCensored and observedEnd
C29_DuplicationOnlyAddsRows ==
    splitMode = "notifyDup" =>
        LET primary == SelectSeq(rows, LAMBDA r : ~r.isDuplicate)
            plain   == PlainNotifyRows
            shown   == SelectSeq(claims, LAMBDA c : c.notify < testCut)
        IN  /\ Len(primary) = Len(plain)
            /\ Len(plain) = Len(shown)
            /\ \A i \in DOMAIN plain :
                  /\ plain[i].claim = shown[i]
                  /\ primary[i].claim = plain[i].claim
                  /\ primary[i].dataset = plain[i].dataset
                  /\ primary[i].cutoff = plain[i].cutoff
                  /\ primary[i].isCensored = plain[i].isCensored
                  /\ primary[i].observedEnd = plain[i].observedEnd
                  /\ ~plain[i].isDuplicate

\* a duplication row list with a duplicate, a claim left out because it is
\* notified on testCut or later, and a censored primary row
C29_Witness ==
    /\ splitMode = "notifyDup"
    /\ \E i \in DOMAIN rows : rows[i].isDuplicate
    /\ \E i \in DOMAIN rows : ~rows[i].isDuplicate /\ rows[i].isCensored
    /\ \E i \in DOMAIN claims : claims[i].notify >= testCut
    /\ Len(PlainNotifyRows) < Len(rows)
    /\ C29_DuplicationOnlyAddsRows
----------------------------------------------------------------------------
(* Properties of the recomputed adjusted amounts *)

\* the adjusted amounts the liability calculator and the training-row
\* generator recompute from the quarter records
RecomputedAdjusted ==
    adjustedThisQuarter(quarterlyData.quarters, quarterlyData.claimInfo, endDate,
                        priceIndexMap, midQuarterIndexMap)

StoredTotals == [i \in DOMAIN quarterlyData.quarters |-> quarterlyData.quarters[i].totalAmount]

\* C30: for a claim aggregated with a price index map, the adjusted amount
\* recomputed per quarter (nominalAmount * priceIndex[target] /
\* midIndex[source], factor 1 when an index is missing) is the totalAmount
\* stored in the same quarter record, so Ultimate is the sum of totalAmount
\* over all quarter records; the training rows use the same Ultimate
C30_RecomputedEqualsStored ==
    ~priceIndexMap.isNull =>
        /\ RecomputedAdjusted = StoredTotals
        /\ ultimateClaimSize(quarterlyData.quarters, RecomputedAdjusted) = SumSeq(StoredTotals)
        /\ \A n \in DOMAIN TrainingRows :
              TrainingRows[n].outstandingLiability + TrainingRows[n].cumulativeToDate
                  >= SumSeq(StoredTotals)

\* a claim aggregated with a price index: one record was adjusted upwards by
\* the index, another one has no payment
C30_Witness ==
    /\ ~priceIndexMap.isNull
    /\ RecomputedAdjusted = StoredTotals
    /\ \E i \in DOMAIN quarterlyData.quarters :
          /\ quarterlyData.quarters[i].nominalAmount > 0
          /\ quarterlyData.quarters[i].totalAmount > quarterlyData.quarters[i].nominalAmount
          /\ RecomputedAdjusted[i] = quarterlyData.quarters[i].totalAmount
    /\ \E i \in DOMAIN quarterlyData.quarters : quarterlyData.quarters[i].paymentCount = 0
    /\ TrainingRows # <<>>
====
